---- MODULE Spec2Model ----
(***************************************************************************)
(* Crop advisory rule engine (ASHISHSE/App_test): the growth-stage         *)
(* advisory matcher, the sowing-calendar matcher and the weather           *)
(* aggregator, in the variants App.py, App_2.py, App_4.py, App_5.py and    *)
(* App_8.py.                                                               *)
(*                                                                         *)
(* Rule texts that the code parses (IF Condition, DAS range, water range,  *)
(* sowing condition) are sequences of one-character strings, so that       *)
(* str.split, str.replace, str.strip, startswith and `in` act on them as   *)
(* they do in Python.  Names that the code only compares for equality      *)
(* (crop, district, growth stage, advisory text) are plain strings.        *)
(***************************************************************************)
EXTENDS Integers, Sequences, FiniteSets, TLC

VARIABLES
    rules_df,      \* growth-rule table (rules.xlsx), a sequence of rows
    sowing_df,     \* sowing-calendar table (sowing_calendar.xlsx)
    weather_df,    \* weather table (weather.xlsx)
    request,       \* the last engine call: function, variant and arguments
    result         \* what that call returned

vars == <<rules_df, sowing_df, weather_df, request, result>>

----------------------------------------------------------------------------
(* Python str operations on sequences of characters.                       *)

IsSpace(c) == c = " "

RECURSIVE lstrip(_)
lstrip(s) ==
    IF s # <<>> /\ IsSpace(Head(s)) THEN lstrip(Tail(s)) ELSE s

RECURSIVE rstrip(_)
rstrip(s) ==
    IF s # <<>> /\ IsSpace(s[Len(s)]) THEN rstrip(SubSeq(s, 1, Len(s) - 1)) ELSE s

strip(s) == rstrip(lstrip(s))

startswith(s, p) == Len(p) <= Len(s) /\ SubSeq(s, 1, Len(p)) = p

endswith(s, p) == Len(p) <= Len(s) /\ SubSeq(s, Len(s) - Len(p) + 1, Len(s)) = p

\* s.find(sub): the first index (1-based) where sub occurs in s, 0 if none
find(s, sub) ==
    LET hits == {i \in 1..(Len(s) - Len(sub) + 1) : SubSeq(s, i, i + Len(sub) - 1) = sub}
    IN  IF hits = {} THEN 0 ELSE CHOOSE i \in hits : \A j \in hits : i <= j

\* sub in s
contains(s, sub) == sub = <<>> \/ find(s, sub) # 0

\* s.split(sep), sep non-empty
RECURSIVE split(_, _)
split(s, sep) ==
    LET i == find(s, sep)
    IN  IF i = 0 THEN <<s>>
        ELSE <<SubSeq(s, 1, i - 1)>> \o split(SubSeq(s, i + Len(sep), Len(s)), sep)

\* s.replace(old, new), old non-empty
RECURSIVE replace(_, _, _)
replace(s, old, new) ==
    LET i == find(s, old)
    IN  IF i = 0 THEN s
        ELSE SubSeq(s, 1, i - 1) \o new \o replace(SubSeq(s, i + Len(old), Len(s)), old, new)

\* s.split() with no separator: the maximal runs of non-space characters
RECURSIVE split_ws(_)
split_ws(s) ==
    LET t == lstrip(s)
        sp == find(t, <<" ">>)
    IN  IF t = <<>> THEN <<>>
        ELSE IF sp = 0 THEN <<t>>
        ELSE <<SubSeq(t, 1, sp - 1)>> \o split_ws(SubSeq(t, sp, Len(t)))

\* ' '.join(parts)
RECURSIVE join_sp(_)
join_sp(parts) ==
    IF parts = <<>> THEN <<>>
    ELSE IF Len(parts) = 1 THEN parts[1]
    ELSE parts[1] \o <<" ">> \o join_sp(Tail(parts))

UpperCase == <<"A","B","C","D","E","F","G","H","I","J","K","L","M",
               "N","O","P","Q","R","S","T","U","V","W","X","Y","Z">>

LowerCase == <<"a","b","c","d","e","f","g","h","i","j","k","l","m",
               "n","o","p","q","r","s","t","u","v","w","x","y","z">>

lower_char(c) ==
    IF \E i \in 1..Len(UpperCase) : UpperCase[i] = c
    THEN LowerCase[CHOOSE i \in 1..Len(UpperCase) : UpperCase[i] = c]
    ELSE c

upper_char(c) ==
    IF \E i \in 1..Len(LowerCase) : LowerCase[i] = c
    THEN UpperCase[CHOOSE i \in 1..Len(LowerCase) : LowerCase[i] = c]
    ELSE c

lower(s) == [i \in 1..Len(s) |-> lower_char(s[i])]

upper(s) == [i \in 1..Len(s) |-> upper_char(s[i])]

----------------------------------------------------------------------------
(* int() and float() of a text.  Both strip surrounding whitespace and     *)
(* accept an optional sign before the digits; any other text raises        *)
(* ValueError, modelled as ok = FALSE.  The rule tables of the model hold  *)
(* whole numbers only, on which float() and int() agree, and the text      *)
(* "nan" that str() gives for an empty spreadsheet cell.                   *)

Digits == <<"0","1","2","3","4","5","6","7","8","9">>

IsDigit(c) == \E i \in 1..Len(Digits) : Digits[i] = c

DigitVal(c) == (CHOOSE i \in 1..Len(Digits) : Digits[i] = c) - 1

RECURSIVE DigitsVal(_)
DigitsVal(s) ==
    IF s = <<>> THEN 0 ELSE DigitsVal(SubSeq(s, 1, Len(s) - 1)) * 10 + DigitVal(s[Len(s)])

AllDigits(s) == s # <<>> /\ \A i \in 1..Len(s) : IsDigit(s[i])

ValueError == [ok |-> FALSE, nan |-> FALSE, val |-> 0]

Number(n) == [ok |-> TRUE, nan |-> FALSE, val |-> n]

\* float("nan"): a number that compares false with everything
NaN == [ok |-> TRUE, nan |-> TRUE, val |-> 0]

int(s) ==
    LET t == strip(s)
    IN  IF t # <<>> /\ Head(t) = "-" /\ AllDigits(Tail(t)) THEN Number(0 - DigitsVal(Tail(t)))
        ELSE IF t # <<>> /\ Head(t) = "+" /\ AllDigits(Tail(t)) THEN Number(DigitsVal(Tail(t)))
        ELSE IF AllDigits(t) THEN Number(DigitsVal(t))
        ELSE ValueError

float(s) ==
    IF lower(strip(s)) = <<"n","a","n">> THEN NaN ELSE int(s)

----------------------------------------------------------------------------
(* Python values handed to the engine: a number, or None.                  *)

PyNum(n) == [t |-> "num", v |-> n]

PyNone == [t |-> "None", v |-> 0]

\* a value that is a text, not a number
PyStr == [t |-> "str", v |-> 0]

----------------------------------------------------------------------------
(* Condition evaluator: parse_if_condition (App_2.py 52-89, App_5.py       *)
(* 24-59).  A parsed condition is the list of its checks, or the           *)
(* ValueError that float() raises in one of the four operator branches,    *)
(* which no try block encloses.                                            *)

Check(op, num) == [kind |-> "check", op |-> op, v |-> num]

\* one fragment p of the condition: a check, "skip" (the bare except: pass)
\* or "raise"
parse_fragment(p) ==
    LET operand(op) == float(strip(replace(p, op, <<>>)))
        branch(op)  == IF operand(op).ok THEN Check(op, operand(op))
                       ELSE [kind |-> "raise", op |-> op, v |-> ValueError]
    IN  IF startswith(p, <<">", "=">>) THEN branch(<<">", "=">>)
        ELSE IF startswith(p, <<"<", "=">>) THEN branch(<<"<", "=">>)
        ELSE IF startswith(p, <<">">>) THEN branch(<<">">>)
        ELSE IF startswith(p, <<"<">>) THEN branch(<<"<">>)
        ELSE IF float(p).ok THEN Check(<<"=", "=">>, float(p))
        ELSE [kind |-> "skip", op |-> <<>>, v |-> ValueError]

parse_if_condition(cond_str) ==
    LET cond  == replace(replace(strip(cond_str), <<"a","n","d">>, <<"&">>),
                         <<"A","N","D">>, <<"&">>)
        raw   == split(cond, <<"&">>)
        parts == [i \in 1..Len(raw) |-> parse_fragment(strip(raw[i]))]
        IsCheck(c) == c.kind = "check"
    IN  IF \E i \in 1..Len(parts) : parts[i].kind = "raise"
        THEN [raised |-> TRUE, checks |-> <<>>]
        ELSE [raised |-> FALSE, checks |-> SelectSeq(parts, IsCheck)]

\* one comparison lambda applied to the number x
check_holds(c, x) ==
    /\ ~c.v.nan
    /\ CASE c.op = <<">", "=">> -> x >= c.v.val
         [] c.op = <<"<", "=">> -> x <= c.v.val
         [] c.op = <<">">>      -> x > c.v.val
         [] c.op = <<"<">>      -> x < c.v.val
         [] OTHER               -> x = c.v.val

\* mutant of evaluator: one check that holds is enough
evaluator_AnyCheck(checks, x) ==
    IF checks = <<>> THEN TRUE
    ELSE IF x.t # "num" THEN FALSE
    ELSE \E i \in 1..Len(checks) : check_holds(checks[i], x.v)

\* mutant of evaluator: a value that cannot be compared passes
evaluator_UncomparablePasses(checks, x) ==
    IF checks = <<>> THEN TRUE
    ELSE IF x.t # "num" THEN TRUE
    ELSE \A i \in 1..Len(checks) : check_holds(checks[i], x.v)

\* evaluator(x): the conjunction of the checks; a comparison that raises
\* (x is None or a string) is caught and gives False
evaluator(checks, x) ==
    IF checks = <<>> THEN TRUE
    ELSE IF x.t # "num" THEN FALSE
    ELSE \A i \in 1..Len(checks) : check_holds(checks[i], x.v)

----------------------------------------------------------------------------
(* DAS-range matcher and water-range parser.                               *)

to == <<"t", "o">>

\* App_2.py 232-254: reads parts[0] and parts[1] only
das_in_range_string_App2(das, das_str) ==
    LET s == strip(das_str)
    IN  IF contains(s, to)
        THEN LET parts == split(s, to)
                 start == int(strip(parts[1]))
                 end   == int(strip(parts[2]))
             IN  start.ok /\ end.ok /\ start.val <= das /\ das <= end.val
        ELSE IF endswith(s, <<"+">>)
        THEN LET start == int(strip(replace(s, <<"+">>, <<>>)))
             IN  start.ok /\ das >= start.val
        ELSE int(s).ok /\ int(s).val = das

\* App_8.py 20-32, App.py 203-215, App_5.py 61-79: a, b = [...] unpacks
\* exactly two parts
das_in_range_string(das, das_str) ==
    LET s == strip(das_str)
    IN  IF contains(s, to)
        THEN LET parts == split(s, to)
             IN  /\ Len(parts) = 2
                 /\ int(strip(parts[1])).ok /\ int(strip(parts[2])).ok
                 /\ int(strip(parts[1])).val <= das /\ das <= int(strip(parts[2])).val
        ELSE IF endswith(s, <<"+">>)
        THEN LET start == int(strip(replace(s, <<"+">>, <<>>)))
             IN  start.ok /\ das >= start.val
        ELSE int(s).ok /\ int(s).val = das

\* App_2.py 257-267: (min, max), or (None, None) modelled as ok = FALSE
parse_water_range(water_str) ==
    IF contains(water_str, to)
    THEN LET parts == split(water_str, to)
         IN  IF Len(parts) = 2 /\ float(strip(parts[1])).ok /\ float(strip(parts[2])).ok
             THEN [ok |-> TRUE, min |-> float(strip(parts[1])), max |-> float(strip(parts[2]))]
             ELSE [ok |-> FALSE, min |-> ValueError, max |-> ValueError]
    ELSE IF float(strip(water_str)).ok
         THEN [ok |-> TRUE, min |-> float(strip(water_str)), max |-> float(strip(water_str))]
         ELSE [ok |-> FALSE, min |-> ValueError, max |-> ValueError]

----------------------------------------------------------------------------
(* Growth advisory matcher: get_growth_advisory.                           *)
(* A rule row is [Crop, GrowthStage, DAS, IdealWater, IFCondition,         *)
(* FarmerAdvisory]; DAS, IdealWater and IFCondition are texts.             *)

\* rules_df[rules_df["Crop"] == crop]
candidates_of(crop, rules) ==
    LET IsCrop(row) == row.Crop = crop
    IN  SelectSeq(rules, IsCrop)

\* the index of the first element of seq for which P holds, 0 if none
FirstIndex(seq, P(_)) ==
    LET hits == {i \in 1..Len(seq) : P(seq[i])}
    IN  IF hits = {} THEN 0 ELSE CHOOSE i \in hits : \A j \in hits : i <= j

GrowthResult(kind, stage, das, water, adv) ==
    [kind |-> kind, growth_stage |-> stage, das |-> das,
     ideal_water |-> water, farmer_advisory |-> adv]

\* return None
GrowthNone == GrowthResult("None", "", 0, <<>>, "")

\* an exception leaves the function
GrowthRaise == GrowthResult("raise", "", 0, <<>>, "")

\* the dict built from a row (App.py 302-307, App_5.py 225-230, App_8.py 177-182)
GrowthDict(row, das) ==
    GrowthResult("dict", row.GrowthStage, das, row.IdealWater, row.FarmerAdvisory)

\* float(rainfall_das) raises TypeError on None
float_of_value(x) == x.t = "num"

\* mutant of growth_fallback_App2: the advisory of the row that matched das
growth_fallback_App2_MatchRow(match_row, same_stage, das, rainfall_das) ==
    GrowthResult("stage_advisory", match_row.GrowthStage, das, <<>>,
                 match_row.FarmerAdvisory)

\* App_2.py 305-327: the fallback on the ideal-water range; a comparison of
\* rainfall_das = None with a number raises and is caught by the bare except
growth_fallback_App2(match_row, same_stage, das, rainfall_das) ==
    LET stage == match_row.GrowthStage
        w     == parse_water_range(match_row.IdealWater)
        x     == rainfall_das.v
        IsLow(r)  == startswith(strip(r.IFCondition), <<"<">>)
        IsHigh(r) == startswith(strip(r.IFCondition), <<">">>)
        low   == SelectSeq(same_stage, IsLow)
        high  == SelectSeq(same_stage, IsHigh)
        Msg(adv) == GrowthResult("stage_advisory", stage, das, <<>>, adv)
    IN  IF ~w.ok THEN GrowthNone
        ELSE IF rainfall_das.t # "num"
        THEN GrowthResult("stage_advisory_except", stage, das, <<>>, match_row.FarmerAdvisory)
        ELSE IF ~w.min.nan /\ ~w.max.nan /\ w.min.val <= x /\ x <= w.max.val
        THEN Msg(same_stage[1].FarmerAdvisory)
        ELSE IF ~w.min.nan /\ x < w.min.val
        THEN IF low # <<>> THEN Msg(low[1].FarmerAdvisory)
             ELSE Msg("Irrigation likely needed.")
        ELSE IF high # <<>> THEN Msg(high[1].FarmerAdvisory)
             ELSE Msg("Drainage may be required.")

\* App_2.py 270-327
get_growth_advisory_App2(crop, das, rainfall_das, rules) ==
    LET candidates == candidates_of(crop, rules)
        DasMatch(row) == das_in_range_string_App2(das, row.DAS)
        m == FirstIndex(candidates, DasMatch)
        match_row  == candidates[m]
        stage_name == match_row.GrowthStage
        IsStage(row) == row.GrowthStage = stage_name
        same_stage == SelectSeq(candidates, IsStage)
        \* the loop of lines 296-303 stops at the first row whose condition
        \* cannot be parsed (line 298 is outside the try) or is satisfied
        Stops(r) == \/ parse_if_condition(r.IFCondition).raised
                    \/ /\ float_of_value(rainfall_das)
                       /\ evaluator(parse_if_condition(r.IFCondition).checks, rainfall_das)
        k == FirstIndex(same_stage, Stops)
    IN  IF candidates = <<>>
        THEN GrowthResult("no_rules", "", 0, <<>>, "No rules found for selected crop.")
        ELSE IF m = 0
        THEN GrowthResult("no_stage", "", 0, <<>>, "No advisory available for this growth stage.")
        ELSE IF k # 0
        THEN IF parse_if_condition(same_stage[k].IFCondition).raised THEN GrowthRaise
             ELSE GrowthResult("stage_advisory", stage_name, das, <<>>,
                               same_stage[k].FarmerAdvisory)
        ELSE growth_fallback_App2(match_row, same_stage, das, rainfall_das)

\* mutant of get_growth_advisory_App5: the IF Condition is not evaluated
get_growth_advisory_App5_NoCondition(crop, das, rainfall_das, rules) ==
    LET candidates == candidates_of(crop, rules)
        DasMatch(row) == das_in_range_string(das, row.DAS)
        k == FirstIndex(candidates, DasMatch)
    IN  IF candidates = <<>> \/ k = 0 THEN GrowthNone
        ELSE GrowthDict(candidates[k], das)

\* App_5.py 216-231: the first row whose DAS range matches and whose
\* condition holds; parse_if_condition is called only on DAS-matching rows
get_growth_advisory_App5(crop, das, rainfall_das, rules) ==
    LET candidates == candidates_of(crop, rules)
        Stops(row) == /\ das_in_range_string(das, row.DAS)
                      /\ \/ parse_if_condition(row.IFCondition).raised
                         \/ evaluator(parse_if_condition(row.IFCondition).checks, rainfall_das)
        k == FirstIndex(candidates, Stops)
    IN  IF candidates = <<>> \/ k = 0 THEN GrowthNone
        ELSE IF parse_if_condition(candidates[k].IFCondition).raised THEN GrowthRaise
        ELSE GrowthDict(candidates[k], das)

\* App.py 296-308: the first row whose DAS range matches; rainfall_das is
\* not read
get_growth_advisory_App(crop, das, rainfall_das, rules) ==
    LET candidates == candidates_of(crop, rules)
        DasMatch(row) == das_in_range_string(das, row.DAS)
        k == FirstIndex(candidates, DasMatch)
    IN  IF candidates = <<>> \/ k = 0 THEN GrowthNone
        ELSE GrowthDict(candidates[k], das)

\* App_8.py 168-183: as App.py; the "Crop" column is present in every table
\* of the model
get_growth_advisory_App8(crop, das, rainfall_das, rules) ==
    LET candidates == candidates_of(crop, rules)
        DasMatch(row) == das_in_range_string(das, row.DAS)
        k == FirstIndex(candidates, DasMatch)
    IN  IF candidates = <<>> \/ k = 0 THEN GrowthNone
        ELSE GrowthDict(candidates[k], das)

----------------------------------------------------------------------------
(* The rule tables and requests of the growth specification.               *)

MaxRules == 2

Stages == {"Tillering", "Flowering"}

DAS_15_to_45 == <<"1","5"," ","t","o"," ","4","5">>

DAS_46_plus == <<"4","6","+">>

DasSpecs == {DAS_15_to_45, DAS_46_plus}

COND_lt_30 == <<"<","3","0">>

COND_ge_30 == <<">","=","3","0">>

COND_10_to_30 == <<">","=","1","0"," ","&"," ","<","=","3","0">>

Conditions == {COND_lt_30, COND_ge_30, COND_10_to_30}

WATER_10_to_30 == <<"1","0"," ","t","o"," ","3","0">>

\* the advisory text of the i-th row of a table: every row has its own
AdvisoryTexts == <<"irrigate", "hold water", "drain field">>

GrowthRow(crop, stage, das, water, cond, adv) ==
    [Crop |-> crop, GrowthStage |-> stage, DAS |-> das, IdealWater |-> water,
     IFCondition |-> cond, FarmerAdvisory |-> adv]

\* the rows a table may hold at position i: every Rice row, and one row of
\* another crop
GrowthRowsAt(i) ==
    {GrowthRow("Rice", st, d, WATER_10_to_30, cd, AdvisoryTexts[i]) :
        st \in Stages, d \in DasSpecs, cd \in Conditions}
    \cup {GrowthRow("Wheat", "Tillering", DAS_15_to_45, WATER_10_to_30, COND_lt_30,
                    AdvisoryTexts[i])}

GrowthTables ==
    UNION {{t \in [1..n -> UNION {GrowthRowsAt(i) : i \in 1..n}] :
                \A i \in 1..n : t[i] \in GrowthRowsAt(i)} : n \in 0..MaxRules}

DasValues == {14, 20, 50}

RainValues == {5, 25, 40}

GrowthVariants == {"App_2", "App_5", "App", "App_8"}

\* Streamlit runs the script once per interaction: the tables are loaded and
\* then one "Generate Advisory" makes one call of each engine function.  A
\* behaviour is one such call against the loaded tables.
NoRequest == [fn |-> "none"]

NoResult == [kind |-> "none"]

InitGrowth ==
    /\ rules_df \in GrowthTables
    /\ sowing_df = <<>>
    /\ weather_df = <<>>
    /\ request = NoRequest
    /\ result = NoResult

GrowthRequest(variant, crop, das, rain) ==
    [fn |-> "get_growth_advisory", variant |-> variant, crop |-> crop, das |-> das,
     rainfall_das |-> rain]

GrowthAdvisoryApp2(crop, das, rain) ==
    /\ request = NoRequest
    /\ request' = GrowthRequest("App_2", crop, das, rain)
    /\ result' = get_growth_advisory_App2(crop, das, PyNum(rain), rules_df)
    /\ UNCHANGED <<rules_df, sowing_df, weather_df>>

GrowthAdvisoryApp5(crop, das, rain) ==
    /\ request = NoRequest
    /\ request' = GrowthRequest("App_5", crop, das, rain)
    /\ result' = get_growth_advisory_App5(crop, das, PyNum(rain), rules_df)
    /\ UNCHANGED <<rules_df, sowing_df, weather_df>>

GrowthAdvisoryApp(crop, das, rain) ==
    /\ request = NoRequest
    /\ request' = GrowthRequest("App", crop, das, rain)
    /\ result' = get_growth_advisory_App(crop, das, PyNum(rain), rules_df)
    /\ UNCHANGED <<rules_df, sowing_df, weather_df>>

GrowthAdvisoryApp8(crop, das, rain) ==
    /\ request = NoRequest
    /\ request' = GrowthRequest("App_8", crop, das, rain)
    /\ result' = get_growth_advisory_App8(crop, das, PyNum(rain), rules_df)
    /\ UNCHANGED <<rules_df, sowing_df, weather_df>>

NextGrowth ==
    \E crop \in {"Rice"}, das \in DasValues, rain \in RainValues :
        \/ GrowthAdvisoryApp2(crop, das, rain)
        \/ GrowthAdvisoryApp5(crop, das, rain)
        \/ GrowthAdvisoryApp(crop, das, rain)
        \/ GrowthAdvisoryApp8(crop, das, rain)

SpecGrowth == InitGrowth /\ [][NextGrowth]_vars

----------------------------------------------------------------------------
(* Properties of the growth advisory matcher.                              *)

\* what the condition texts of the tables mean, stated without the parser
ConditionMeans(cond, x) ==
    CASE cond = COND_lt_30    -> x < 30
      [] cond = COND_ge_30    -> x >= 30
      [] cond = COND_10_to_30 -> 10 <= x /\ x <= 30

\* what the DAS-range texts of the tables mean, stated without the parser
DasRangeMeans(spec, das) ==
    CASE spec = DAS_15_to_45 -> 15 <= das /\ das <= 45
      [] spec = DAS_46_plus  -> das >= 46

IsGrowthCall(variants) ==
    request.fn = "get_growth_advisory" /\ request.variant \in variants

\* the rows of the requested crop, as indexes of rules_df
CropRows == {i \in 1..Len(rules_df) : rules_df[i].Crop = request.crop}

\* the rows of the requested crop whose DAS range holds the requested das
DasRows == {i \in CropRows : DasRangeMeans(rules_df[i].DAS, request.das)}

\* those of DasRows whose condition the requested rainfall satisfies
SatisfiedRows == {i \in DasRows : ConditionMeans(rules_df[i].IFCondition, request.rainfall_das)}

Least(S) == CHOOSE i \in S : \A j \in S : i <= j

\* the rows matching das are the rows of one growth stage with one DAS range
OneStageOneRange ==
    /\ DasRows # {}
    /\ \A i, j \in DasRows : /\ rules_df[i].GrowthStage = rules_df[j].GrowthStage
                             /\ rules_df[i].DAS = rules_df[j].DAS
    /\ \A i \in CropRows :
          rules_df[i].GrowthStage = rules_df[Least(DasRows)].GrowthStage => i \in DasRows

ReturnsRow(i) ==
    /\ result.kind \in {"stage_advisory", "dict"}
    /\ result.growth_stage = rules_df[i].GrowthStage
    /\ result.farmer_advisory = rules_df[i].FarmerAdvisory

TilleringExample ==
    <<GrowthRow("Rice", "Tillering", DAS_15_to_45, WATER_10_to_30, COND_lt_30, "irrigate"),
      GrowthRow("Rice", "Tillering", DAS_15_to_45, WATER_10_to_30, COND_ge_30, "hold water")>>

\* C1: in App_2.py and App_5.py, when the rows of the crop that match das are
\* the rows of one growth stage with one DAS range, get_growth_advisory
\* returns the advisory of the first of them, in table order, whose IF
\* Condition the rainfall satisfies; the Tillering table at das = 20 gives
\* "irrigate" for rainfall 25 and "hold water" for rainfall 40.
C1_FirstSatisfiedRow ==
    IsGrowthCall({"App_2", "App_5"}) =>
        /\ (OneStageOneRange /\ SatisfiedRows # {}) => ReturnsRow(Least(SatisfiedRows))
        /\ (rules_df = TilleringExample /\ request.crop = "Rice" /\ request.das = 20) =>
              /\ request.rainfall_das = 25 => result.farmer_advisory = "irrigate"
              /\ request.rainfall_das = 40 => result.farmer_advisory = "hold water"

\* C1 witness: the second row of a same-stage pair is returned because the
\* first row's condition fails
C1_Witness ==
    /\ IsGrowthCall({"App_5"})
    /\ rules_df = TilleringExample
    /\ request.das = 20 /\ request.rainfall_das = 40
    /\ OneStageOneRange /\ Least(SatisfiedRows) = 2
    /\ result.farmer_advisory = "hold water"

\* C2: in App.py and App_8.py, among the rows of the crop whose DAS range
\* matches das, get_growth_advisory returns the first whose IF Condition the
\* rainfall satisfies.
C2_LatestVariantsDisambiguate ==
    IsGrowthCall({"App", "App_8"}) =>
        (SatisfiedRows # {} => ReturnsRow(Least(SatisfiedRows)))

----------------------------------------------------------------------------
(* Fortnight calendar and sowing advisory matcher.                         *)
(* A date is [day, month, year].  A sowing row is [District, Taluka,       *)
(* Circle, Crop, IFcondition, Comment]; IFcondition is a text.             *)

\* the full month names of strftime("%B") and strptime(..., "%B")
MonthNames == <<
    <<"J","a","n","u","a","r","y">>,
    <<"F","e","b","r","u","a","r","y">>,
    <<"M","a","r","c","h">>,
    <<"A","p","r","i","l">>,
    <<"M","a","y">>,
    <<"J","u","n","e">>,
    <<"J","u","l","y">>,
    <<"A","u","g","u","s","t">>,
    <<"S","e","p","t","e","m","b","e","r">>,
    <<"O","c","t","o","b","e","r">>,
    <<"N","o","v","e","m","b","e","r">>,
    <<"D","e","c","e","m","b","e","r">> >>

Date(d, m, y) == [day |-> d, month |-> m, year |-> y]

\* datetime comparison a <= b
date_le(a, b) ==
    \/ a.year < b.year
    \/ a.year = b.year /\ a.month < b.month
    \/ a.year = b.year /\ a.month = b.month /\ a.day <= b.day

\* App_2.py 331-338, App.py 196-198
fn_from_date(dt) ==
    IF dt.day <= 15 THEN <<"1","F","N"," ">> \o MonthNames[dt.month]
    ELSE <<"2","F","N"," ">> \o MonthNames[dt.month]

\* App_2.py 341-343, App.py 200-201
normalize_fn_string(s) == strip(replace(s, <<".">>, <<>>))

\* datetime.strptime(text, '%B').month: the month names match in any case;
\* any other text raises ValueError
strptime_month(text) ==
    LET hits == {m \in 1..Len(MonthNames) : lower(MonthNames[m]) = lower(text)}
    IN  IF hits = {} THEN ValueError ELSE Number(CHOOSE m \in hits : TRUE)

\* mutant of fn_index: the half of the month is not counted
fn_index_MonthOnly(token) ==
    LET parts == split_ws(token)
        mnum  == strptime_month(join_sp(Tail(parts)))
    IN  IF parts = <<>> \/ ~mnum.ok THEN ValueError ELSE Number((mnum.val - 1) * 2)

\* App_2.py 412-420: an IndexError (empty token) or a ValueError (no month
\* name) is ok = FALSE
fn_index(token) ==
    LET parts  == split_ws(token)
        fnpart == parts[1]
        mnum   == strptime_month(join_sp(Tail(parts)))
    IN  IF parts = <<>> \/ ~mnum.ok THEN ValueError
        ELSE Number((mnum.val - 1) * 2 + (IF startswith(fnpart, <<"2">>) THEN 1 ELSE 0))

\* App_2.py 372-389: the '<' pattern
sowing_less_than(cond, fn, sowing_dt) ==
    LET target  == strip(replace(cond, <<"<">>, <<>>))
        t_parts == split_ws(target)
        t_month == strptime_month(join_sp(Tail(t_parts)))
    IN  /\ startswith(cond, <<"<">>)
        /\ t_parts # <<>>
        /\ t_month.ok
        /\ \/ sowing_dt.month < t_month.val
           \/ /\ sowing_dt.month = t_month.val
              /\ startswith(upper(t_parts[1]), <<"2">>)
              /\ startswith(fn, <<"1","F","N">>)

\* App_2.py 391-405: the '>' pattern
sowing_greater_than(cond, fn, sowing_dt) ==
    LET target  == strip(replace(cond, <<">">>, <<>>))
        t_parts == split_ws(target)
        t_month == strptime_month(join_sp(Tail(t_parts)))
    IN  /\ startswith(cond, <<">">>)
        /\ t_parts # <<>>
        /\ t_month.ok
        /\ \/ sowing_dt.month > t_month.val
           \/ /\ sowing_dt.month = t_month.val
              /\ startswith(upper(t_parts[1]), <<"1">>)
              /\ startswith(fn, <<"2","F","N">>)

\* App_2.py 407-428: the range pattern; left, right = ... unpacks exactly two
\* parts of cond.split('to')
sowing_in_range(cond, fn) ==
    /\ contains(cond, to)
    /\ LET parts == split(cond, to)
       IN  /\ Len(parts) = 2
           /\ fn_index(fn).ok
           /\ fn_index(strip(parts[1])).ok
           /\ fn_index(strip(parts[2])).ok
           /\ fn_index(strip(parts[1])).val <= fn_index(fn).val
           /\ fn_index(fn).val <= fn_index(strip(parts[2])).val

\* App_2.py 362-428: whether the loop body returns for this row
row_matches_App2(row, sowing_dt) ==
    LET fn   == fn_from_date(sowing_dt)
        cond == normalize_fn_string(row.IFcondition)
    IN  /\ cond # <<>>
        /\ \/ contains(lower(cond), lower(fn))
           \/ sowing_less_than(cond, fn, sowing_dt)
           \/ sowing_greater_than(cond, fn, sowing_dt)
           \/ sowing_in_range(cond, fn)

\* the three filters of App_2.py 352-356 and App.py 240-244
sowing_filter(tier, row, district, taluka, circle, crop) ==
    CASE tier = 1 -> /\ row.District = district /\ row.Taluka = taluka
                     /\ row.Circle = circle /\ row.Crop = crop
      [] tier = 2 -> row.District = district /\ row.Taluka = taluka /\ row.Crop = crop
      [] OTHER    -> row.District = district /\ row.Crop = crop

sowing_subset(tier, district, taluka, circle, crop, sowing) ==
    LET Passes(row) == sowing_filter(tier, row, district, taluka, circle, crop)
    IN  SelectSeq(sowing, Passes)

SowingResult(kind, cond, comment) == [kind |-> kind, cond |-> cond, comment |-> comment]

\* mutant of sowing_fallback_App2: the 1FN text whatever the fortnight
sowing_fallback_App2_Always1FN(fn) ==
    SowingResult("generic", <<>>,
        "1FN (Month Date between 1 to 15): Early sowing/First fortnight sowing behavior.")

\* App_2.py 433-437: the generic text chosen by the fortnight of the date
sowing_fallback_App2(fn) ==
    IF startswith(fn, <<"1","F","N">>)
    THEN SowingResult("generic", <<>>,
             "1FN (Month Date between 1 to 15): Early sowing/First fortnight sowing behavior.")
    ELSE SowingResult("generic", <<>>,
             "2FN (Month Date between 16 to 31): Late sowing/Second fortnight sowing behavior.")

\* mutant of get_sowing_advisory_App2: without the break of line 431 the next
\* filters are tried
get_sowing_advisory_App2_NoBreak(sowing_dt, district, taluka, circle, crop, sowing) ==
    LET fn == fn_from_date(sowing_dt)
        Sub(tier) == sowing_subset(tier, district, taluka, circle, crop, sowing)
        all == Sub(1) \o Sub(2) \o Sub(3)
        Matches(row) == row_matches_App2(row, sowing_dt)
        k == FirstIndex(all, Matches)
    IN  IF k = 0 THEN IF startswith(fn, <<"1","F","N">>)
                      THEN SowingResult("generic", <<>>,
             "1FN (Month Date between 1 to 15): Early sowing/First fortnight sowing behavior.")
                      ELSE SowingResult("generic", <<>>,
             "2FN (Month Date between 16 to 31): Late sowing/Second fortnight sowing behavior.")
        ELSE SowingResult("rule", all[k].IFcondition, all[k].Comment)

\* App_2.py 346-437: the rows of the first non-empty subset are tested, then
\* the loop over the filters is left by the break of line 431
get_sowing_advisory_App2(sowing_dt, district, taluka, circle, crop, sowing) ==
    LET fn == fn_from_date(sowing_dt)
        Sub(tier) == sowing_subset(tier, district, taluka, circle, crop, sowing)
        tiers == {t \in 1..3 : Sub(t) # <<>>}
        first == CHOOSE t \in tiers : \A u \in tiers : t <= u
        Matches(row) == row_matches_App2(row, sowing_dt)
        k == FirstIndex(Sub(first), Matches)
    IN  IF tiers = {} THEN sowing_fallback_App2(fn)
        ELSE IF k = 0 THEN sowing_fallback_App2(fn)
        ELSE SowingResult("rule", Sub(first)[k].IFcondition, Sub(first)[k].Comment)

----------------------------------------------------------------------------
(* Sowing comments of App.py, with the literal date range.                 *)

\* \d{2}-\d{2}-\d{4}
is_date_text(s) ==
    /\ Len(s) = 10
    /\ \A i \in {1, 2, 4, 5, 7, 8, 9, 10} : IsDigit(s[i])
    /\ s[3] = "-" /\ s[6] = "-"

\* the text after one or more spaces, or <<"!">> when s does not start with
\* a space (\s+ needs one)
after_spaces(s) ==
    IF s # <<>> /\ IsSpace(Head(s)) THEN lstrip(s) ELSE <<"!">>

\* whether the pattern \((\d{2}-\d{2}-\d{4})\s+to\s+(\d{2}-\d{2}-\d{4})\)
\* matches s at position i
date_range_at(s, i) ==
    LET a == after_spaces(SubSeq(s, i + 11, Len(s)))
        b == after_spaces(SubSeq(a, 3, Len(a)))
    IN  /\ s[i] = "("
        /\ i + 10 <= Len(s)
        /\ is_date_text(SubSeq(s, i + 1, i + 10))
        /\ startswith(a, to)
        /\ Len(b) >= 11
        /\ is_date_text(SubSeq(b, 1, 10))
        /\ b[11] = ")"

DaysInMonth(m, y) ==
    IF m \in {4, 6, 9, 11} THEN 30
    ELSE IF m = 2 THEN (IF y % 4 = 0 /\ (y % 100 # 0 \/ y % 400 = 0) THEN 29 ELSE 28)
    ELSE 31

\* datetime.strptime(text, "%d-%m-%Y") of a text matched by \d{2}-\d{2}-\d{4}
strptime_dmy(s) ==
    LET d == DigitsVal(SubSeq(s, 1, 2))
        m == DigitsVal(SubSeq(s, 4, 5))
        y == DigitsVal(SubSeq(s, 7, 10))
    IN  IF m \in 1..12 /\ y >= 1 /\ d >= 1 /\ d <= DaysInMonth(m, y)
        THEN [ok |-> TRUE, date |-> Date(d, m, y)]
        ELSE [ok |-> FALSE, date |-> Date(0, 0, 0)]

\* App.py 217-223: found = FALSE is (None, None); raised = TRUE is the
\* ValueError of strptime on a matched text that is no calendar date
parse_condition_with_dates(cond_str) ==
    LET hits == {i \in 1..Len(cond_str) : date_range_at(cond_str, i)}
        i == CHOOSE h \in hits : \A g \in hits : h <= g
        a == after_spaces(SubSeq(cond_str, i + 11, Len(cond_str)))
        b == after_spaces(SubSeq(a, 3, Len(a)))
        start == strptime_dmy(SubSeq(cond_str, i + 1, i + 10))
        end   == strptime_dmy(SubSeq(b, 1, 10))
    IN  IF hits = {} THEN [found |-> FALSE, raised |-> FALSE,
                           start |-> Date(0, 0, 0), end |-> Date(0, 0, 0)]
        ELSE IF ~start.ok \/ ~end.ok THEN [found |-> FALSE, raised |-> TRUE,
                           start |-> Date(0, 0, 0), end |-> Date(0, 0, 0)]
        ELSE [found |-> TRUE, raised |-> FALSE, start |-> start.date, end |-> end.date]

\* App.py 225-229
match_condition_with_dates(sowing_date, cond_str) ==
    LET r == parse_condition_with_dates(cond_str)
    IN  r.found /\ date_le(r.start, sowing_date) /\ date_le(sowing_date, r.end)

\* App.py 231-234
match_condition(sowing_date, cond_str) ==
    contains(lower(normalize_fn_string(cond_str)), lower(fn_from_date(sowing_date)))

\* App.py 249-250: the test of one row
row_matches_App(row, sowing_dt) ==
    LET cond == strip(row.IFcondition)
    IN  match_condition_with_dates(sowing_dt, cond) \/ match_condition(sowing_dt, cond)

\* App.py 249-250: strptime raises inside match_condition_with_dates
row_raises_App(row) == parse_condition_with_dates(strip(row.IFcondition)).raised

\* App.py 236-253: every filter is tried in turn; the loop has no break, so
\* a subset without a matching row is followed by the next filter
get_sowing_comments_App(sowing_dt, district, taluka, circle, crop, sowing) ==
    LET Sub(tier) == sowing_subset(tier, district, taluka, circle, crop, sowing)
        all   == Sub(1) \o Sub(2) \o Sub(3)
        Stops(row) == row_raises_App(row) \/ row_matches_App(row, sowing_dt)
        k == FirstIndex(all, Stops)
    IN  IF sowing = <<>> \/ k = 0 THEN SowingResult("empty_list", <<>>, "")
        ELSE IF row_raises_App(all[k]) THEN SowingResult("raise", <<>>, "")
        ELSE SowingResult("comment", fn_from_date(sowing_dt), all[k].Comment)

----------------------------------------------------------------------------
(* The sowing tables and requests of the sowing specification.             *)

MaxSowingRows == 2

SOW_lt_2FN_June == <<"<"," ","2","F","N"," ","J","u","n","e">>

SOW_gt_1FN_July == <<">"," ","1","F","N"," ","J","u","l","y">>

SOW_2FN_June_to_1FN_July == <<"2","F","N"," ","J","u","n","e"," ","t","o"," ","1","F","N"," ","J","u","l","y">>

SOW_1FN_June_literal == <<"1","F","N"," ","J","u","n","e"," ","(","0","1","-","0","6","-","2","0","2","4"," ","t","o"," ","1","5","-","0","6","-","2","0","2","4",")">>

SOW_literal_only == <<"(","1","6","-","0","6","-","2","0","2","4"," ","t","o"," ","3","0","-","0","6","-","2","0","2","4",")">>

SowingConditions ==
    {SOW_lt_2FN_June, SOW_gt_1FN_July, SOW_2FN_June_to_1FN_July,
     SOW_1FN_June_literal, SOW_literal_only}

\* (district, taluka, circle) of a sowing row: the requested circle, another
\* circle of the requested taluka, a circle of another taluka
SowingPlaces ==
    {<<"Ahmednagar", "Ahmednagar", "Kapurwadi">>,
     <<"Ahmednagar", "Ahmednagar", "Bhingar">>,
     <<"Ahmednagar", "Parner", "Supa">>}

\* the comment text of the i-th row of a table: every row has its own
CommentTexts == <<"Early Sowing", "Late Sowing", "Ideal Sowing Period">>

SowingRow(place, crop, cond, comment) ==
    [District |-> place[1], Taluka |-> place[2], Circle |-> place[3], Crop |-> crop,
     IFcondition |-> cond, Comment |-> comment]

SowingRowsAt(i) ==
    {SowingRow(pl, "Cotton", cd, CommentTexts[i]) : pl \in SowingPlaces, cd \in SowingConditions}
    \cup {SowingRow(<<"Ahmednagar", "Ahmednagar", "Kapurwadi">>, "Paddy",
                    SOW_2FN_June_to_1FN_July, CommentTexts[i])}

SowingTables ==
    UNION {{t \in [1..n -> UNION {SowingRowsAt(i) : i \in 1..n}] :
                \A i \in 1..n : t[i] \in SowingRowsAt(i)} : n \in 0..MaxSowingRows}

SowingDates == {Date(10, 6, 2024), Date(20, 6, 2024), Date(20, 7, 2024), Date(10, 6, 2025)}

InitSowing ==
    /\ rules_df = <<>>
    /\ sowing_df \in SowingTables
    /\ weather_df = <<>>
    /\ request = NoRequest
    /\ result = NoResult

SowingRequest(fn, variant, sowing_dt, district, taluka, circle, crop) ==
    [fn |-> fn, variant |-> variant, sowing_dt |-> sowing_dt, district |-> district,
     taluka |-> taluka, circle |-> circle, crop |-> crop]

SowingAdvisoryApp2(sowing_dt, district, taluka, circle, crop) ==
    /\ request = NoRequest
    /\ request' = SowingRequest("get_sowing_advisory", "App_2", sowing_dt, district,
                                taluka, circle, crop)
    /\ result' = get_sowing_advisory_App2(sowing_dt, district, taluka, circle, crop, sowing_df)
    /\ UNCHANGED <<rules_df, sowing_df, weather_df>>

SowingCommentsApp(sowing_dt, district, taluka, circle, crop) ==
    /\ request = NoRequest
    /\ request' = SowingRequest("get_sowing_comments", "App", sowing_dt, district,
                                taluka, circle, crop)
    /\ result' = get_sowing_comments_App(sowing_dt, district, taluka, circle, crop, sowing_df)
    /\ UNCHANGED <<rules_df, sowing_df, weather_df>>

NextSowing ==
    \E sowing_dt \in SowingDates :
        \/ SowingAdvisoryApp2(sowing_dt, "Ahmednagar", "Ahmednagar", "Kapurwadi", "Cotton")
        \/ SowingCommentsApp(sowing_dt, "Ahmednagar", "Ahmednagar", "Kapurwadi", "Cotton")

SpecSowing == InitSowing /\ [][NextSowing]_vars

----------------------------------------------------------------------------
(* Properties of the sowing matcher: tier selection and the no-match      *)
(* result.                                                                 *)

IsSowingCall(variant) ==
    request.fn \in {"get_sowing_advisory", "get_sowing_comments"} /\ request.variant = variant

\* the rows that pass the filter of a tier, for the request made
TierRows(tier) ==
    sowing_subset(tier, request.district, request.taluka, request.circle, request.crop,
                  sowing_df)

NonEmptyTiers == {t \in 1..3 : TierRows(t) # <<>>}

\* the row test of the variant called
RowMatches(row) ==
    IF request.variant = "App_2" THEN row_matches_App2(row, request.sowing_dt)
    ELSE row_matches_App(row, request.sowing_dt)

MatchingIn(tier) == {k \in 1..Len(TierRows(tier)) : RowMatches(TierRows(tier)[k])}

\* the tiers that hold a row matching the sowing date
MatchingTiers == {t \in 1..3 : MatchingIn(t) # {}}

\* the chosen tier has rows and none matches, or no tier has rows
NoMatchInChosenTier ==
    NonEmptyTiers = {} \/ MatchingIn(Least(NonEmptyTiers)) = {}

ReturnsSowingRow(row) ==
    result.kind \in {"rule", "comment"} /\ result.comment = row.Comment

IsSowingNoMatch == result.kind \in {"generic", "empty_list", "no_match"}

LiteralRange(cond) ==
    CASE cond = SOW_1FN_June_literal -> <<Date(1, 6, 2024), Date(15, 6, 2024)>>
      [] cond = SOW_literal_only     -> <<Date(16, 6, 2024), Date(30, 6, 2024)>>
      [] OTHER                       -> <<>>

\* C6: in App.py a row whose condition holds a literal date range is
\* returned only for a sowing date inside that range.
C6_LiteralRangePrecedence ==
    IsSowingCall("App") =>
        \A i \in 1..Len(sowing_df) :
            (ReturnsSowingRow(sowing_df[i]) /\ LiteralRange(sowing_df[i].IFcondition) # <<>>) =>
                /\ date_le(LiteralRange(sowing_df[i].IFcondition)[1], request.sowing_dt)
                /\ date_le(request.sowing_dt, LiteralRange(sowing_df[i].IFcondition)[2])

----------------------------------------------------------------------------
(* The range rules "X to Y" over every pair of fortnight tokens.           *)

Halves == {"1", "2"}

\* the fortnight token of a half and a month, as a calendar author writes it
Token(h, m) == <<h, "F", "N", " ">> \o MonthNames[m]

\* the condition text "X to Y"
RangeCondition(h1, m1, h2, m2) == Token(h1, m1) \o <<" ", "t", "o", " ">> \o Token(h2, m2)

RangeConditions ==
    {RangeCondition(h1, m1, h2, m2) :
        h1 \in Halves, m1 \in 1..Len(MonthNames), h2 \in Halves, m2 \in 1..Len(MonthNames)}

\* the first day, the last day of the first fortnight and the first day of
\* the second fortnight of every month of 2024
RangeDates == {Date(d, m, 2024) : d \in {1, 15, 16}, m \in 1..Len(MonthNames)}

InitFortnightRange ==
    /\ rules_df = <<>>
    /\ \E cond \in RangeConditions :
          sowing_df = <<SowingRow(<<"Ahmednagar", "Ahmednagar", "Kapurwadi">>, "Cotton",
                                  cond, CommentTexts[1])>>
    /\ weather_df = <<>>
    /\ request = NoRequest
    /\ result = NoResult

NextFortnightRange ==
    \E sowing_dt \in RangeDates :
        SowingAdvisoryApp2(sowing_dt, "Ahmednagar", "Ahmednagar", "Kapurwadi", "Cotton")

SpecFortnightRange == InitFortnightRange /\ [][NextFortnightRange]_vars

\* the fortnight index of the specification: 2 * (month - 1) + (half - 1)
FortnightIndex(h, m) == 2 * (m - 1) + (IF h = "2" THEN 1 ELSE 0)

DateFortnightIndex(dt) == 2 * (dt.month - 1) + (IF dt.day <= 15 THEN 0 ELSE 1)

\* C4: a rule "X to Y" with index(X) <= index(Y) is returned for a sowing
\* date if and only if the fortnight index of the date lies within
\* [index(X), index(Y)], for every pair of half and month name.
C4_RangeRule ==
    IsSowingCall("App_2") =>
        \A h1 \in Halves, h2 \in Halves, m1 \in 1..Len(MonthNames), m2 \in 1..Len(MonthNames) :
            (/\ sowing_df = <<SowingRow(<<"Ahmednagar", "Ahmednagar", "Kapurwadi">>, "Cotton",
                                       RangeCondition(h1, m1, h2, m2), CommentTexts[1])>>
             /\ FortnightIndex(h1, m1) <= FortnightIndex(h2, m2)) =>
                (ReturnsSowingRow(sowing_df[1]) <=>
                    /\ FortnightIndex(h1, m1) <= DateFortnightIndex(request.sowing_dt)
                    /\ DateFortnightIndex(request.sowing_dt) <= FortnightIndex(h2, m2))

----------------------------------------------------------------------------
(* The weather aggregator.  A weather record is [District, Taluka, Circle, *)
(* Date_dt, Rainfall, Tmax, Tmin, max_Rh, min_Rh].  Date_dt is the day     *)
(* number of the date, counted from a fixed origin, so timedelta(days = n) *)
(* is n and (a - b).days is a - b.  A cell of a numeric column is          *)
(* Number(n), or NaN for an empty or non-numeric cell                      *)
(* (pd.to_numeric(errors = "coerce")).  A mean is kept as the exact        *)
(* fraction num / den.                                                     *)

max(a, b) == IF a >= b THEN a ELSE b

\* level = "Circle" if circle else "Taluka" if taluka else "District"
select_level(district, taluka, circle) ==
    IF circle # "" THEN "Circle" ELSE IF taluka # "" THEN "Taluka" ELSE "District"

\* level_name = circle if circle else taluka if taluka else district
select_level_name(district, taluka, circle) ==
    IF circle # "" THEN circle ELSE IF taluka # "" THEN taluka ELSE district

\* mutant of filter_by_level: the rows that carry the name at any level
filter_by_level_AnyLevel(df, level, name) ==
    LET Named(r) == r.Circle = name \/ r.Taluka = name \/ r.District = name
    IN  SelectSeq(df, Named)

\* df = df[df[level] == name]
filter_by_level(df, level, name) ==
    LET InCircle(r)   == r.Circle = name
        InTaluka(r)   == r.Taluka = name
        InDistrict(r) == r.District = name
    IN  CASE level = "Circle"   -> SelectSeq(df, InCircle)
          [] level = "Taluka"   -> SelectSeq(df, InTaluka)
          [] level = "District" -> SelectSeq(df, InDistrict)
          [] OTHER              -> df

\* mutant of date_window: the window has no first day
date_window_NoStart(df, start, end) ==
    LET Inside(r) == r.Date_dt <= end
    IN  SelectSeq(df, Inside)

\* df.loc[(df["Date_dt"] >= start) & (df["Date_dt"] <= end)]
date_window(df, start, end) ==
    LET Inside(r) == r.Date_dt >= start /\ r.Date_dt <= end
    IN  SelectSeq(df, Inside)

\* mutant of week_start: the week reaches seven days back
week_start_SevenBack(current_dt) == current_dt - 7

\* week_start = current_dt - timedelta(days=6)
week_start(current_dt) == current_dt - 6

\* month_start = current_dt - timedelta(days=29)
month_start(current_dt) == current_dt - 29

\* App_2.py 205: last_week_start = current_dt - timedelta(days=7)
last_week_start_App2(current_dt) == current_dt - 7

\* App_2.py 206: last_month_start = current_dt - timedelta(days=30)
last_month_start_App2(current_dt) == current_dt - 30

\* df[col]
column(df, col) == [i \in 1..Len(df) |-> df[i][col]]

\* Series.dropna()
dropna(series) ==
    LET Present(x) == ~x.nan
    IN  SelectSeq(series, Present)

\* s[s != 0], on a series without NaN
nonzero(series) ==
    LET NotZero(x) == x.val # 0
    IN  SelectSeq(series, NotZero)

\* Series.replace(0, np.nan)
replace_zero_by_nan(series) ==
    [i \in 1..Len(series) |->
        IF ~series[i].nan /\ series[i].val = 0 THEN NaN ELSE series[i]]

RECURSIVE series_total(_)
series_total(series) ==
    IF series = <<>> THEN 0 ELSE Head(series).val + series_total(Tail(series))

\* mutant of series_sum: a missing reading voids the whole sum
series_sum_MissingVoids(series) ==
    IF dropna(series) = series THEN series_total(series) ELSE 0

\* Series.sum(), which skips NaN, and Series.fillna(0).sum()
series_sum(series) == series_total(dropna(series))

\* mutant of count_positive: every reading present counts, zero included
count_positive_CountsZero(series) ==
    Cardinality({i \in 1..Len(series) : ~series[i].nan})

\* (series > 0).sum(): NaN > 0 is False
count_positive(series) ==
    Cardinality({i \in 1..Len(series) : ~series[i].nan /\ series[i].val > 0})

PyFloat(num, den) == [t |-> "float", num |-> num, den |-> den]

\* float("nan") as a returned value
PyNaN == [t |-> "nan", num |-> 0, den |-> 0]

\* float(s.mean()) of a series without NaN: NaN for the empty series
series_mean(s) ==
    IF s = <<>> THEN PyNaN ELSE PyFloat(series_total(s), Len(s))

\* App_8.py 118-123
avg_ignore_zero_and_na(series) ==
    IF Len(series) = 0 THEN PyNone
    ELSE LET s == nonzero(dropna(series))
         IN  IF s = <<>> THEN PyNone ELSE series_mean(s)

\* App_5.py 190-196
avg_ignore_zero_and_na_App5(series) ==
    IF Len(series) = 0 THEN PyNone
    ELSE LET s == dropna(replace_zero_by_nan(series))
         IN  IF s = <<>> THEN PyNone ELSE series_mean(s)

\* App.py 276-279
avg_ignore_zero_and_na_App(series) ==
    LET s == nonzero(dropna(series))
    IN  IF s = <<>> THEN PyNone ELSE series_mean(s)

\* App.py 2205: the mean is taken whenever the window holds a record
avg_App_2205(series) ==
    IF series # <<>> THEN series_mean(dropna(replace_zero_by_nan(series))) ELSE PyNone

\* App_2.py 218-221 and 226-228: the mean skips NaN only, and a NaN result
\* is replaced by None
avg_App2(series) ==
    IF dropna(series) # <<>> THEN series_mean(dropna(series)) ELSE PyNone

\* mutant of has_column: without the Rainfall column no column is found
has_column_NeedsRainfall(weather_data, col) ==
    weather_data = <<>> \/ {col, "Rainfall"} \subseteq DOMAIN weather_data[1]

\* "col" in das_data: a window has the columns of the table it is cut from;
\* a table without a row has every column
has_column(weather_data, col) ==
    weather_data = <<>> \/ col \in DOMAIN weather_data[1]

\* App_8.py 84-142
calculate_weather_metrics_App8(weather_data, level, name, sowing_dt, current_dt) ==
    LET df         == filter_by_level(weather_data, level, name)
        das_data   == date_window(df, sowing_dt, current_dt)
        week_data  == date_window(df, week_start(current_dt), current_dt)
        month_data == date_window(df, month_start(current_dt), current_dt)
    IN  [rainfall_last_week  |-> IF has_column(weather_data, "Rainfall")
                                 THEN series_sum(column(week_data, "Rainfall"))
                                 ELSE 0,
         rainfall_last_month |-> IF has_column(weather_data, "Rainfall")
                                 THEN series_sum(column(month_data, "Rainfall"))
                                 ELSE 0,
         rainfall_das        |-> IF has_column(weather_data, "Rainfall")
                                 THEN series_sum(column(das_data, "Rainfall"))
                                 ELSE 0,
         rainy_days_week     |-> IF has_column(weather_data, "Rainfall")
                                 THEN count_positive(column(week_data, "Rainfall"))
                                 ELSE 0,
         rainy_days_month    |-> IF has_column(weather_data, "Rainfall")
                                 THEN count_positive(column(month_data, "Rainfall"))
                                 ELSE 0,
         rainy_days_das      |-> IF has_column(weather_data, "Rainfall")
                                 THEN count_positive(column(das_data, "Rainfall"))
                                 ELSE 0,
         tmax_avg            |-> IF has_column(weather_data, "Tmax")
                                 THEN avg_ignore_zero_and_na(column(das_data, "Tmax"))
                                 ELSE PyNone,
         tmin_avg            |-> IF has_column(weather_data, "Tmin")
                                 THEN avg_ignore_zero_and_na(column(das_data, "Tmin"))
                                 ELSE PyNone,
         max_rh_avg          |-> IF has_column(weather_data, "max_Rh")
                                 THEN avg_ignore_zero_and_na(column(das_data, "max_Rh"))
                                 ELSE PyNone,
         min_rh_avg          |-> IF has_column(weather_data, "min_Rh")
                                 THEN avg_ignore_zero_and_na(column(das_data, "min_Rh"))
                                 ELSE PyNone,
         das                 |-> max(current_dt - sowing_dt, 0)]

\* App_5.py 143-213
calculate_weather_metrics_App5(weather_data, level, name, sowing_dt, current_dt) ==
    LET df         == filter_by_level(weather_data, level, name)
        week_data  == date_window(df, week_start(current_dt), current_dt)
        month_data == date_window(df, month_start(current_dt), current_dt)
        das_data   == date_window(df, sowing_dt, current_dt)
    IN  [rainfall_last_week  |-> IF week_data # <<>>
                                 THEN series_sum(column(week_data, "Rainfall")) ELSE 0,
         rainfall_last_month |-> IF month_data # <<>>
                                 THEN series_sum(column(month_data, "Rainfall")) ELSE 0,
         rainfall_das        |-> IF das_data # <<>>
                                 THEN series_sum(column(das_data, "Rainfall")) ELSE 0,
         tmax_avg            |-> avg_ignore_zero_and_na_App5(column(das_data, "Tmax")),
         tmin_avg            |-> avg_ignore_zero_and_na_App5(column(das_data, "Tmin")),
         max_rh_avg          |-> avg_ignore_zero_and_na_App5(column(das_data, "max_Rh")),
         min_rh_avg          |-> avg_ignore_zero_and_na_App5(column(das_data, "min_Rh")),
         das                 |-> max(current_dt - sowing_dt, 0)]

\* App.py 255-294 (das_data, the window handed back for display, is left out)
calculate_weather_metrics_App(weather_data, level, name, sowing_dt, current_dt) ==
    LET df         == filter_by_level(weather_data, level, name)
        das_data   == date_window(df, sowing_dt, current_dt)
        week_data  == date_window(df, week_start(current_dt), current_dt)
        month_data == date_window(df, month_start(current_dt), current_dt)
    IN  [rainfall_das        |-> IF has_column(weather_data, "Rainfall")
                                 THEN series_sum(column(das_data, "Rainfall"))
                                 ELSE 0,
         rainfall_last_week  |-> IF has_column(weather_data, "Rainfall")
                                 THEN series_sum(column(week_data, "Rainfall"))
                                 ELSE 0,
         rainfall_last_month |-> IF has_column(weather_data, "Rainfall")
                                 THEN series_sum(column(month_data, "Rainfall"))
                                 ELSE 0,
         rainy_days_das      |-> IF has_column(weather_data, "Rainfall")
                                 THEN count_positive(column(das_data, "Rainfall"))
                                 ELSE 0,
         rainy_days_week     |-> IF has_column(weather_data, "Rainfall")
                                 THEN count_positive(column(week_data, "Rainfall"))
                                 ELSE 0,
         rainy_days_month    |-> IF has_column(weather_data, "Rainfall")
                                 THEN count_positive(column(month_data, "Rainfall"))
                                 ELSE 0,
         tmax_avg            |-> IF has_column(weather_data, "Tmax")
                                 THEN avg_ignore_zero_and_na_App(column(das_data, "Tmax"))
                                 ELSE PyNone,
         tmin_avg            |-> IF has_column(weather_data, "Tmin")
                                 THEN avg_ignore_zero_and_na_App(column(das_data, "Tmin"))
                                 ELSE PyNone,
         max_rh_avg          |-> IF has_column(weather_data, "max_Rh")
                                 THEN avg_ignore_zero_and_na_App(column(das_data, "max_Rh"))
                                 ELSE PyNone,
         min_rh_avg          |-> IF has_column(weather_data, "min_Rh")
                                 THEN avg_ignore_zero_and_na_App(column(das_data, "min_Rh"))
                                 ELSE PyNone,
         das                 |-> max(current_dt - sowing_dt, 0)]

\* App.py 2189-2219
calculate_weather_metrics_App_2189(weather_data, level, name, sowing_dt, current_dt) ==
    LET df         == filter_by_level(weather_data, level, name)
        das_data   == date_window(df, sowing_dt, current_dt)
        week_data  == date_window(df, week_start(current_dt), current_dt)
        month_data == date_window(df, month_start(current_dt), current_dt)
    IN  [rainfall_das        |-> IF has_column(weather_data, "Rainfall")
                                 THEN series_sum(column(das_data, "Rainfall"))
                                 ELSE 0,
         rainfall_last_week  |-> IF has_column(weather_data, "Rainfall")
                                 THEN series_sum(column(week_data, "Rainfall"))
                                 ELSE 0,
         rainfall_last_month |-> IF has_column(weather_data, "Rainfall")
                                 THEN series_sum(column(month_data, "Rainfall"))
                                 ELSE 0,
         rainy_days_das      |-> IF has_column(weather_data, "Rainfall")
                                 THEN count_positive(column(das_data, "Rainfall"))
                                 ELSE 0,
         rainy_days_week     |-> IF has_column(weather_data, "Rainfall")
                                 THEN count_positive(column(week_data, "Rainfall"))
                                 ELSE 0,
         rainy_days_month    |-> IF has_column(weather_data, "Rainfall")
                                 THEN count_positive(column(month_data, "Rainfall"))
                                 ELSE 0,
         tmax_avg            |-> IF has_column(weather_data, "Tmax")
                                 THEN avg_App_2205(column(das_data, "Tmax"))
                                 ELSE PyNone,
         tmin_avg            |-> IF has_column(weather_data, "Tmin")
                                 THEN avg_App_2205(column(das_data, "Tmin"))
                                 ELSE PyNone,
         max_rh_avg          |-> IF has_column(weather_data, "max_Rh")
                                 THEN avg_App_2205(column(das_data, "max_Rh"))
                                 ELSE PyNone,
         min_rh_avg          |-> IF has_column(weather_data, "min_Rh")
                                 THEN avg_App_2205(column(das_data, "min_Rh"))
                                 ELSE PyNone,
         das                 |-> max(current_dt - sowing_dt, 0)]

\* App_2.py 186-229
calculate_weather_metrics_App2(weather_data, level, name, sowing_dt, current_dt) ==
    LET df              == filter_by_level(weather_data, level, name)
        das             == current_dt - sowing_dt
        last_week_data  == date_window(df, last_week_start_App2(current_dt), current_dt)
        last_month_data == date_window(df, last_month_start_App2(current_dt), current_dt)
        das_data        == date_window(df, sowing_dt, current_dt)
    IN  [rainfall_last_week  |-> IF last_week_data # <<>>
                                 THEN series_sum(column(last_week_data, "Rainfall")) ELSE 0,
         rainfall_last_month |-> IF last_month_data # <<>>
                                 THEN series_sum(column(last_month_data, "Rainfall")) ELSE 0,
         rainfall_das        |-> IF das_data # <<>>
                                 THEN series_sum(column(das_data, "Rainfall")) ELSE 0,
         tmax_avg            |-> avg_App2(column(das_data, "Tmax")),
         tmin_avg            |-> avg_App2(column(das_data, "Tmin")),
         max_rh_avg          |-> avg_App2(column(das_data, "max_Rh")),
         min_rh_avg          |-> avg_App2(column(das_data, "min_Rh")),
         das                 |-> IF das < 0 THEN 0 ELSE das]

\* App_6_downloadeble.py 103-105: any level but Circle and Taluka is District
filter_by_level_App6(df, level, name) ==
    LET InCircle(r)   == r.Circle = name
        InTaluka(r)   == r.Taluka = name
        InDistrict(r) == r.District = name
    IN  IF level = "Circle" THEN SelectSeq(df, InCircle)
        ELSE IF level = "Taluka" THEN SelectSeq(df, InTaluka)
        ELSE SelectSeq(df, InDistrict)

\* df[df["Date_dt"] >= start]
date_from(df, start) ==
    LET Inside(r) == r.Date_dt >= start
    IN  SelectSeq(df, Inside)

\* App_6_downloadeble.py 122-125: the mean is taken whenever the window holds
\* a record
avg_App6(das_data, col) ==
    IF das_data # <<>> THEN series_mean(dropna(column(das_data, col))) ELSE PyNone

\* App_6_downloadeble.py 102-127
calculate_weather_metrics_App6(weather_data, level, name, sowing_dt, current_dt) ==
    LET df         == filter_by_level_App6(weather_data, level, name)
        last_week  == current_dt - 7
        last_month == current_dt - 30
        das_data   == date_window(df, sowing_dt, current_dt)
    IN  [rainfall_last_week  |-> series_sum(column(date_from(df, last_week), "Rainfall")),
         rainfall_last_month |-> series_sum(column(date_from(df, last_month), "Rainfall")),
         rainfall_das        |-> series_sum(column(das_data, "Rainfall")),
         tmax_avg            |-> avg_App6(das_data, "Tmax"),
         tmin_avg            |-> avg_App6(das_data, "Tmin"),
         max_rh_avg          |-> avg_App6(das_data, "max_Rh"),
         min_rh_avg          |-> avg_App6(das_data, "min_Rh"),
         das                 |-> max(current_dt - sowing_dt, 0)]

\* mutant of caller_frame_after_App6: the rows are filtered in the frame of
\* the caller
caller_frame_after_App6_InPlace(weather_data, level, name) ==
    filter_by_level_App6(weather_data, level, name)

\* App_6_downloadeble.py 103-107: the frame handed in is not copied, but df
\* is bound to the rows a mask selects, a new frame, before the Date_dt
\* column is assigned; the frame of the caller keeps its rows and columns
caller_frame_after_App6(weather_data, level, name) == weather_data

\* mutant of compute_DAS: the difference in days, unclamped
compute_DAS_Unclamped(sowing_date, current_date) ==
    IF sowing_date = PyNone \/ current_date = PyNone THEN PyNone
    ELSE PyNum(current_date.v - sowing_date.v)

\* App_4.py 168-174
compute_DAS(sowing_date, current_date) ==
    IF sowing_date = PyNone \/ current_date = PyNone THEN PyNone
    ELSE LET das == current_date.v - sowing_date.v
         IN  IF das < 0 THEN PyNum(0) ELSE PyNum(das)

----------------------------------------------------------------------------
(* The weather tables and requests.  The i-th record of a table carries    *)
(* its own rainfall and temperature when it has one, so that a sum tells   *)
(* which records it covers.                                                *)

MaxWeatherRows == 2

RainWeights == <<1, 2, 4>>

TmaxReadings == <<30, 33, 37>>

WeatherRow(place, date, rain, tmax) ==
    [District |-> place[1], Taluka |-> place[2], Circle |-> place[3], Date_dt |-> date,
     Rainfall |-> rain, Tmax |-> tmax, Tmin |-> Number(20), max_Rh |-> Number(0),
     min_Rh |-> NaN]

\* the current date of the requests
CurrentDates == {40}

\* the sowing date of a request: before, on and after the current date
SowingDatesFor(current_dt) == {current_dt - 20, current_dt, current_dt + 5}

WeatherTablesOf(RowsAt(_)) ==
    UNION {{t \in [1..n -> UNION {RowsAt(i) : i \in 1..n}] :
                \A i \in 1..n : t[i] \in RowsAt(i)} : n \in 0..MaxWeatherRows}

WeatherRequest(variant, district, taluka, circle, sowing_dt, current_dt) ==
    [fn |-> "calculate_weather_metrics", variant |-> variant, district |-> district,
     taluka |-> taluka, circle |-> circle, sowing_dt |-> sowing_dt,
     current_dt |-> current_dt]

\* App_8.py 218-221
WeatherMetricsApp8(district, taluka, circle, sowing_dt, current_dt) ==
    /\ request = NoRequest
    /\ request' = WeatherRequest("App_8", district, taluka, circle, sowing_dt, current_dt)
    /\ result' = calculate_weather_metrics_App8(weather_df,
                     select_level(district, taluka, circle),
                     select_level_name(district, taluka, circle), sowing_dt, current_dt)
    /\ UNCHANGED <<rules_df, sowing_df, weather_df>>

\* App_5.py 291-294
WeatherMetricsApp5(district, taluka, circle, sowing_dt, current_dt) ==
    /\ request = NoRequest
    /\ request' = WeatherRequest("App_5", district, taluka, circle, sowing_dt, current_dt)
    /\ result' = calculate_weather_metrics_App5(weather_df,
                     select_level(district, taluka, circle),
                     select_level_name(district, taluka, circle), sowing_dt, current_dt)
    /\ UNCHANGED <<rules_df, sowing_df, weather_df>>

\* App.py 368-371
WeatherMetricsApp(district, taluka, circle, sowing_dt, current_dt) ==
    /\ request = NoRequest
    /\ request' = WeatherRequest("App", district, taluka, circle, sowing_dt, current_dt)
    /\ result' = calculate_weather_metrics_App(weather_df,
                     select_level(district, taluka, circle),
                     select_level_name(district, taluka, circle), sowing_dt, current_dt)
    /\ UNCHANGED <<rules_df, sowing_df, weather_df>>

\* App.py 2250-2253
WeatherMetricsApp_2189(district, taluka, circle, sowing_dt, current_dt) ==
    /\ request = NoRequest
    /\ request' = WeatherRequest("App_2189", district, taluka, circle, sowing_dt, current_dt)
    /\ result' = calculate_weather_metrics_App_2189(weather_df,
                     select_level(district, taluka, circle),
                     select_level_name(district, taluka, circle), sowing_dt, current_dt)
    /\ UNCHANGED <<rules_df, sowing_df, weather_df>>

\* App_2.py 512-523: the call of calculate_weather_metrics with its level
WeatherMetricsApp2(district, taluka, circle, sowing_dt, current_dt) ==
    /\ request = NoRequest
    /\ request' = WeatherRequest("App_2", district, taluka, circle, sowing_dt, current_dt)
    /\ result' = calculate_weather_metrics_App2(weather_df,
                     select_level(district, taluka, circle),
                     select_level_name(district, taluka, circle), sowing_dt, current_dt)
    /\ UNCHANGED <<rules_df, sowing_df, weather_df>>

\* App_6_downloadeble.py 183-186
WeatherMetricsApp6(district, taluka, circle, sowing_dt, current_dt) ==
    /\ request = NoRequest
    /\ request' = WeatherRequest("App_6", district, taluka, circle, sowing_dt, current_dt)
    /\ result' = calculate_weather_metrics_App6(weather_df,
                     select_level(district, taluka, circle),
                     select_level_name(district, taluka, circle), sowing_dt, current_dt)
    /\ weather_df' = caller_frame_after_App6(weather_df,
                     select_level(district, taluka, circle),
                     select_level_name(district, taluka, circle))
    /\ UNCHANGED <<rules_df, sowing_df>>

\* App_4.py 193: das = compute_DAS(sowing_date, current_date)
ComputeDAS(sowing_date, current_date) ==
    /\ request = NoRequest
    /\ request' = [fn |-> "compute_DAS", variant |-> "App_4", sowing_date |-> sowing_date,
                   current_date |-> current_date]
    /\ result' = compute_DAS(sowing_date, current_date)
    /\ UNCHANGED <<rules_df, sowing_df, weather_df>>

----------------------------------------------------------------------------
(* Windows: the records of one circle, dated around the ends of the        *)
(* three windows.                                                          *)

\* the offsets, in days before the current date, of the record dates
WindowOffsets == {30, 29, 21, 20, 7, 6, 0, -1}

WindowRowsAt(i) ==
    {WeatherRow(<<"Ahmednagar", "Ahmednagar", "Kapurwadi">>, c - k, rain, Number(TmaxReadings[i])) :
        c \in CurrentDates, k \in WindowOffsets, rain \in {NaN, Number(RainWeights[i])}}

InitWindows ==
    /\ rules_df = <<>>
    /\ sowing_df = <<>>
    /\ weather_df \in WeatherTablesOf(WindowRowsAt)
    /\ request = NoRequest
    /\ result = NoResult

NextWindows ==
    \E current_dt \in CurrentDates : \E sowing_dt \in SowingDatesFor(current_dt) :
        \/ WeatherMetricsApp8("Ahmednagar", "Ahmednagar", "Kapurwadi", sowing_dt, current_dt)
        \/ WeatherMetricsApp5("Ahmednagar", "Ahmednagar", "Kapurwadi", sowing_dt, current_dt)
        \/ WeatherMetricsApp("Ahmednagar", "Ahmednagar", "Kapurwadi", sowing_dt, current_dt)
        \/ WeatherMetricsApp_2189("Ahmednagar", "Ahmednagar", "Kapurwadi", sowing_dt, current_dt)
        \/ WeatherMetricsApp2("Ahmednagar", "Ahmednagar", "Kapurwadi", sowing_dt, current_dt)
        \/ \E s \in {PyNum(sowing_dt), PyNone}, c \in {PyNum(current_dt), PyNone} :
              ComputeDAS(s, c)

SpecWindows == InitWindows /\ [][NextWindows]_vars

----------------------------------------------------------------------------
(* Scope: records of several places inside the since-sowing window, with   *)
(* valid, zero and missing temperatures.                                   *)

\* the requested circle; another circle of its taluka; another taluka of
\* its district; a circle of the same name in another district
WeatherPlaces ==
    {<<"Ahmednagar", "Ahmednagar", "Kapurwadi">>,
     <<"Ahmednagar", "Ahmednagar", "Bhingar">>,
     <<"Ahmednagar", "Parner", "Supa">>,
     <<"Pune", "Haveli", "Kapurwadi">>}

\* (district, taluka, circle) of a request; "" is a level left unselected,
\* and no weather record is of the circle Savedi
ScopeRequests ==
    {<<"Ahmednagar", "Ahmednagar", "Kapurwadi">>,
     <<"Ahmednagar", "Ahmednagar", "Savedi">>,
     <<"Ahmednagar", "Ahmednagar", "">>,
     <<"Ahmednagar", "", "">>}

ScopeRowsAt(i) ==
    {WeatherRow(pl, c - 3, Number(RainWeights[i]), tmax) :
        pl \in WeatherPlaces, c \in CurrentDates,
        tmax \in {NaN, Number(0), Number(TmaxReadings[i])}}

InitScope ==
    /\ rules_df = <<>>
    /\ sowing_df = <<>>
    /\ weather_df \in WeatherTablesOf(ScopeRowsAt)
    /\ request = NoRequest
    /\ result = NoResult

NextScope ==
    \E current_dt \in CurrentDates : \E rq \in ScopeRequests :
        \/ WeatherMetricsApp8(rq[1], rq[2], rq[3], current_dt - 20, current_dt)
        \/ WeatherMetricsApp5(rq[1], rq[2], rq[3], current_dt - 20, current_dt)
        \/ WeatherMetricsApp(rq[1], rq[2], rq[3], current_dt - 20, current_dt)
        \/ WeatherMetricsApp_2189(rq[1], rq[2], rq[3], current_dt - 20, current_dt)
        \/ WeatherMetricsApp2(rq[1], rq[2], rq[3], current_dt - 20, current_dt)

SpecScope == InitScope /\ [][NextScope]_vars

----------------------------------------------------------------------------
(* Properties of the weather aggregator, stated on the records of the      *)
(* table by their positions.                                               *)

IsWeatherCall(variants) ==
    request.fn = "calculate_weather_metrics" /\ request.variant \in variants

\* the records in the scope of the request made
ScopeRecords ==
    {i \in 1..Len(weather_df) :
        IF request.circle # "" THEN weather_df[i].Circle = request.circle
        ELSE IF request.taluka # "" THEN weather_df[i].Taluka = request.taluka
        ELSE weather_df[i].District = request.district}

\* the records of the scope dated within [first, last]
Dated(first, last) ==
    {i \in ScopeRecords : first <= weather_df[i].Date_dt /\ weather_df[i].Date_dt <= last}

RainOf(i) == IF weather_df[i].Rainfall.nan THEN 0 ELSE weather_df[i].Rainfall.val

RECURSIVE RainOver(_)
RainOver(S) ==
    IF S = {} THEN 0
    ELSE LET i == CHOOSE j \in S : TRUE IN RainOf(i) + RainOver(S \ {i})

\* the records of S with a temperature that is neither missing nor 0
Readings(S) == {i \in S : ~weather_df[i].Tmax.nan /\ weather_df[i].Tmax.val # 0}

RECURSIVE TmaxOver(_)
TmaxOver(S) ==
    IF S = {} THEN 0
    ELSE LET i == CHOOSE j \in S : TRUE IN weather_df[i].Tmax.val + TmaxOver(S \ {i})

SinceSowing == Dated(request.sowing_dt, request.current_dt)

C8_AverageIgnoresZeroAndMissing ==
    IsWeatherCall({"App_8", "App_5", "App_2189"}) =>
        /\ Readings(SinceSowing) # {} =>
              result.tmax_avg = PyFloat(TmaxOver(Readings(SinceSowing)),
                                        Cardinality(Readings(SinceSowing)))
        /\ (SinceSowing # {} /\ Readings(SinceSowing) = {}) => result.tmax_avg = PyNone

ClampedDays(sowing, current) == IF current >= sowing THEN current - sowing ELSE 0

\* C10: calculate_weather_metrics of App_8.py and App_2.py and compute_DAS of
\* App_4.py give das = max(0, days from sowing to current): 0 on the sowing
\* date, never negative.
C10_DasClamp ==
    /\ IsWeatherCall({"App_8", "App_2"}) =>
          /\ result.das = ClampedDays(request.sowing_dt, request.current_dt)
          /\ result.das >= 0
          /\ request.sowing_dt = request.current_dt => result.das = 0
    /\ (/\ request.fn = "compute_DAS"
        /\ request.sowing_date # PyNone /\ request.current_date # PyNone) =>
          /\ result = PyNum(ClampedDays(request.sowing_date.v, request.current_date.v))
          /\ result.v >= 0

\* C10 witness: compute_DAS with a current date before the sowing date
\* gives 0
C10_Witness ==
    /\ request.fn = "compute_DAS"
    /\ request.sowing_date # PyNone /\ request.current_date # PyNone
    /\ request.current_date.v < request.sowing_date.v
    /\ result = PyNum(0)

----------------------------------------------------------------------------
(* The condition evaluator on its own: a condition text is parsed and the  *)
(* predicate is applied to a value.                                        *)

\* an exception leaves parse_if_condition
ConditionRaise == [kind |-> "raise", value |-> FALSE]

ConditionBool(b) == [kind |-> "bool", value |-> b]

\* evaluator = parse_if_condition(cond); evaluator(x)
apply_if_condition(cond_str, x) ==
    LET parsed == parse_if_condition(cond_str)
    IN  IF parsed.raised THEN ConditionRaise
        ELSE ConditionBool(evaluator(parsed.checks, x))

\* the comparison operators of a fragment; <<>> is the bare number
FragmentOperators == {<<">", "=">>, <<"<", "=">>, <<">">>, <<"<">>, <<>>}

\* the operand texts and the numbers they denote (0 for a text that is not
\* a number)
OperandTexts == <<<<"1", "0">>, <<"3", "0">>, <<"a", "b", "c">>>>

OperandValues == <<10, 30, 0>>

OperandIsNumber == <<TRUE, TRUE, FALSE>>

\* the conjunction tokens: "&", "and", "AND", "And", between spaces
ConjunctionTokens ==
    {<<" ", "&", " ">>, <<" ", "a", "n", "d", " ">>, <<" ", "A", "N", "D", " ">>,
     <<" ", "A", "n", "d", " ">>}

\* a fragment is <<operator, operand index>>; a condition is one fragment,
\* or two fragments and the token between them
ConditionFragments == FragmentOperators \X (1..Len(OperandTexts))

ConditionCases ==
    {<<f, <<>>, f>> : f \in ConditionFragments}
    \cup (ConditionFragments \X ConjunctionTokens \X ConditionFragments)

FragmentText(f) == f[1] \o OperandTexts[f[2]]

ConditionText(c) ==
    IF c[2] = <<>> THEN FragmentText(c[1])
    ELSE FragmentText(c[1]) \o c[2] \o FragmentText(c[3])

ConditionTexts == {ConditionText(c) : c \in ConditionCases}

\* the values a predicate is applied to
ConditionValues == {PyNum(5), PyNum(10), PyNum(25), PyNum(30), PyNum(31), PyNone, PyStr}

InitCondition ==
    /\ rules_df = <<>>
    /\ sowing_df = <<>>
    /\ weather_df = <<>>
    /\ request = NoRequest
    /\ result = NoResult

\* App_2.py 298-300
ParseIfConditionApp2(cond_str, x) ==
    /\ request = NoRequest
    /\ request' = [fn |-> "parse_if_condition", variant |-> "App_2",
                   cond_str |-> cond_str, x |-> x]
    /\ result' = apply_if_condition(cond_str, x)
    /\ UNCHANGED <<rules_df, sowing_df, weather_df>>

\* App_5.py 223-224
ParseIfConditionApp5(cond_str, x) ==
    /\ request = NoRequest
    /\ request' = [fn |-> "parse_if_condition", variant |-> "App_5",
                   cond_str |-> cond_str, x |-> x]
    /\ result' = apply_if_condition(cond_str, x)
    /\ UNCHANGED <<rules_df, sowing_df, weather_df>>

NextCondition ==
    \E cond_str \in ConditionTexts, x \in ConditionValues :
        \/ ParseIfConditionApp2(cond_str, x)
        \/ ParseIfConditionApp5(cond_str, x)

SpecCondition == InitCondition /\ [][NextCondition]_vars

----------------------------------------------------------------------------
(* Properties of the condition evaluator, stated on the fragments the      *)
(* condition text was written from.                                        *)

\* the fragments and token a condition text of the model is written from
ConditionCaseOf ==
    [t \in ConditionTexts |-> CHOOSE c \in ConditionCases : ConditionText(c) = t]

IsConditionCall == request.fn = "parse_if_condition"

RequestCase == ConditionCaseOf[request.cond_str]

FragmentsOf(c) == IF c[2] = <<>> THEN {c[1]} ELSE {c[1], c[3]}

OperandIsNumeric(f) == OperandIsNumber[f[2]]

\* the comparison a fragment with a numeric operand denotes, on the number n
FragmentHolds(f, n) ==
    CASE f[1] = <<">", "=">> -> n >= OperandValues[f[2]]
      [] f[1] = <<"<", "=">> -> n <= OperandValues[f[2]]
      [] f[1] = <<">">>      -> n > OperandValues[f[2]]
      [] f[1] = <<"<">>      -> n < OperandValues[f[2]]
      [] OTHER               -> n = OperandValues[f[2]]

JoinedByAmpersand(c) == c[2] \in {<<>>, <<" ", "&", " ">>}

\* C11: the predicate of a condition whose comparisons are joined by "&" is
\* true for a number exactly when every comparison of the text holds for it.
C11_Conjunction ==
    (/\ IsConditionCall /\ request.x.t = "num"
     /\ JoinedByAmpersand(RequestCase)
     /\ \A f \in FragmentsOf(RequestCase) : OperandIsNumeric(f)) =>
        result = ConditionBool(\A f \in FragmentsOf(RequestCase) :
                                   FragmentHolds(f, request.x.v))

\* C11 witness: ">=10 & <=30" is true for 25
C11_Witness ==
    /\ IsConditionCall
    /\ request.cond_str = <<">", "=", "1", "0", " ", "&", " ", "<", "=", "3", "0">>
    /\ request.x = PyNum(25)
    /\ result = ConditionBool(TRUE)

\* C12: a fragment that cannot be parsed, ">=abc" included, is skipped
\* without raising and the other fragments are kept; with no usable
\* comparison the predicate is true for every number.
C12_UnparseableFragmentSkipped ==
    (/\ IsConditionCall /\ request.x.t = "num"
     /\ JoinedByAmpersand(RequestCase)) =>
        result = ConditionBool(\A f \in FragmentsOf(RequestCase) :
                                   OperandIsNumeric(f) => FragmentHolds(f, request.x.v))

\* C13: "and" in any letter case and "&" give the same predicate, the
\* conjunction of the comparisons.
C13_ConjunctionTokenAnyCase ==
    (/\ IsConditionCall /\ request.x.t = "num"
     /\ \A f \in FragmentsOf(RequestCase) : OperandIsNumeric(f)) =>
        result = ConditionBool(\A f \in FragmentsOf(RequestCase) :
                                   FragmentHolds(f, request.x.v))

\* C14: the predicate of a condition that parses gives false, and raises
\* nothing, for a value that cannot be compared with a number (None, a text).
C14_EvaluationNeverRaises ==
    (/\ IsConditionCall /\ request.x.t # "num"
     /\ RequestCase[2] # <<" ", "A", "n", "d", " ">>
     /\ \A f \in FragmentsOf(RequestCase) : OperandIsNumeric(f)) =>
        result = ConditionBool(FALSE)

\* C14 witness: ">=10 & <=30" applied to None is false
C14_Witness ==
    /\ IsConditionCall
    /\ request.cond_str = <<">", "=", "1", "0", " ", "&", " ", "<", "=", "3", "0">>
    /\ request.x = PyNone
    /\ result = ConditionBool(FALSE)

----------------------------------------------------------------------------
(* The DAS-range matcher on its own.                                       *)

\* the numbers written in the DAS cells, and their texts
DasNumbers == <<10, 20, 115>>

DasNumberTexts == <<<<"1", "0">>, <<"2", "0">>, <<"1", "1", "5">>>>

\* a DAS cell is <<form, i, j, padded>>: the range "a to b", "a+", the bare
\* "a", with a = DasNumbers[i], b = DasNumbers[j], between spaces if padded
DasCases ==
    {"range", "plus", "bare"} \X (1..Len(DasNumbers)) \X (1..Len(DasNumbers)) \X BOOLEAN

DasCaseText(c) ==
    LET body == CASE c[1] = "range" ->
                         DasNumberTexts[c[2]] \o <<" ", "t", "o", " ">> \o DasNumberTexts[c[3]]
                  [] c[1] = "plus" -> DasNumberTexts[c[2]] \o <<"+">>
                  [] OTHER -> DasNumberTexts[c[2]]
    IN  IF c[4] THEN <<" ">> \o body \o <<" ", " ">> ELSE body

\* cells of no form: empty, blank, not a number, three parts, a range or a
\* threshold with a part that is not a number, repeated plus signs
MalformedDasTexts ==
    {<<>>, <<" ">>, <<"a", "b", "c">>, <<"1", "0", " ", "t", "o", " ", "2", "0", " ", "t", "o", " ", "1", "1", "5">>,
     <<"1", "0", " ", "t", "o", " ", "a", "b", "c">>, <<"a", "b", "c", "+">>,
     <<"+">>, <<"2", "0", "+", "+">>, <<"1", "+", "0", "+">>}

DasTexts == {DasCaseText(c) : c \in DasCases} \cup MalformedDasTexts

DasInputs == {9, 10, 15, 20, 21, 114, 115, 200}

InitDasRange ==
    /\ rules_df = <<>>
    /\ sowing_df = <<>>
    /\ weather_df = <<>>
    /\ request = NoRequest
    /\ result = NoResult

\* App_8.py 174: das_in_range_string(das, row.get("DAS (Days After Sowing)"))
DasInRangeStringApp8(das, das_str) ==
    /\ request = NoRequest
    /\ request' = [fn |-> "das_in_range_string", variant |-> "App_8", das |-> das,
                   das_str |-> das_str]
    /\ result' = ConditionBool(das_in_range_string(das, das_str))
    /\ UNCHANGED <<rules_df, sowing_df, weather_df>>

NextDasRange ==
    \E das \in DasInputs, das_str \in DasTexts : DasInRangeStringApp8(das, das_str)

SpecDasRange == InitDasRange /\ [][NextDasRange]_vars

\* what a DAS cell of one of the three forms means
DasCaseMeans(c, das) ==
    CASE c[1] = "range" -> DasNumbers[c[2]] <= das /\ das <= DasNumbers[c[3]]
      [] c[1] = "plus"  -> das >= DasNumbers[c[2]]
      [] OTHER          -> das = DasNumbers[c[2]]

\* C15: "a to b" matches iff a <= das <= b, "a+" iff das >= a, a bare
\* integer iff das = a, whitespace around is ignored, and every other text
\* gives false.
C15_DasRangeMatcher ==
    request.fn = "das_in_range_string" =>
        /\ \A c \in DasCases :
              request.das_str = DasCaseText(c) =>
                  result = ConditionBool(DasCaseMeans(c, request.das))
        /\ request.das_str \in MalformedDasTexts => result = ConditionBool(FALSE)

----------------------------------------------------------------------------
(* The growth fallback of App_2.py: tables whose conditions the rainfall   *)
(* may leave unsatisfied.                                                  *)

FB_lt_5 == <<"<", "5">>

FB_gt_40 == <<">", "4", "0">>

FB_eq_20 == <<"2", "0">>

FallbackConditions == {FB_lt_5, FB_gt_40, FB_eq_20, COND_10_to_30}

WATER_20 == <<"2", "0">>

FallbackWaters == {WATER_10_to_30, WATER_20}

FallbackRowsAt(i) ==
    {GrowthRow("Rice", st, DAS_15_to_45, w, cd, AdvisoryTexts[i]) :
        st \in Stages, w \in FallbackWaters, cd \in FallbackConditions}
    \cup {GrowthRow("Wheat", "Tillering", DAS_15_to_45, WATER_10_to_30, FB_lt_5,
                    AdvisoryTexts[i])}

FallbackTables ==
    UNION {{t \in [1..n -> UNION {FallbackRowsAt(i) : i \in 1..n}] :
                \A i \in 1..n : t[i] \in FallbackRowsAt(i)} : n \in 0..MaxRules}

InitGrowthFallback ==
    /\ rules_df \in FallbackTables
    /\ sowing_df = <<>>
    /\ weather_df = <<>>
    /\ request = NoRequest
    /\ result = NoResult

NextGrowthFallback ==
    \E das \in {14, 20}, rain \in RainValues : GrowthAdvisoryApp2("Rice", das, rain)

SpecGrowthFallback == InitGrowthFallback /\ [][NextGrowthFallback]_vars

\* what the condition texts of these tables mean, stated without the parser
FallbackConditionMeans(cond, x) ==
    CASE cond = FB_lt_5       -> x < 5
      [] cond = FB_gt_40      -> x > 40
      [] cond = FB_eq_20      -> x = 20
      [] cond = COND_10_to_30 -> 10 <= x /\ x <= 30

\* the ideal-water range <<min, max>> a water text means
WaterMeans(water) == IF water = WATER_20 THEN <<20, 20>> ELSE <<10, 30>>

\* the rows of the crop whose DAS range "15 to 45" holds das
FallbackDasRows == {i \in CropRows : 15 <= request.das /\ request.das <= 45}

\* the rows of the crop that are of the stage of the first row matching das
FallbackStageRows ==
    {i \in CropRows : rules_df[i].GrowthStage = rules_df[Least(FallbackDasRows)].GrowthStage}

\* a stage matched das and the rainfall satisfies no condition of its rows
IsFallbackCase ==
    /\ IsGrowthCall({"App_2"})
    /\ FallbackDasRows # {}
    /\ \A i \in FallbackStageRows :
          ~FallbackConditionMeans(rules_df[i].IFCondition, request.rainfall_das)

FallbackLowRows == {i \in FallbackStageRows : rules_df[i].IFCondition = FB_lt_5}

\* ">40" and ">=10 & <=30" both start with ">"
FallbackHighRows ==
    {i \in FallbackStageRows : rules_df[i].IFCondition \in {FB_gt_40, COND_10_to_30}}

FallbackAdvisory(text) ==
    /\ result.kind = "stage_advisory"
    /\ result.growth_stage = rules_df[Least(FallbackDasRows)].GrowthStage
    /\ result.farmer_advisory = text

\* C16: in the fallback of App_2.py the ideal-water range (min, max) of the
\* row that matched das decides: rainfall within it gives the advisory of
\* the stage's first row; below min, that of the first row of the stage
\* whose condition starts with "<", else the irrigation message; above max,
\* that of the first whose condition starts with ">", else the drainage
\* message.
C16_GrowthFallback ==
    IsFallbackCase =>
        LET w == WaterMeans(rules_df[Least(FallbackDasRows)].IdealWater)
            x == request.rainfall_das
        IN  IF w[1] <= x /\ x <= w[2]
            THEN FallbackAdvisory(rules_df[Least(FallbackStageRows)].FarmerAdvisory)
            ELSE IF x < w[1]
            THEN IF FallbackLowRows # {}
                 THEN FallbackAdvisory(rules_df[Least(FallbackLowRows)].FarmerAdvisory)
                 ELSE FallbackAdvisory("Irrigation likely needed.")
            ELSE IF FallbackHighRows # {}
                 THEN FallbackAdvisory(rules_df[Least(FallbackHighRows)].FarmerAdvisory)
                 ELSE FallbackAdvisory("Drainage may be required.")

\* C16 witness: rainfall above the range, and the second row of the stage is
\* the first whose condition starts with ">"
C16_Witness ==
    /\ IsFallbackCase
    /\ request.rainfall_das > WaterMeans(rules_df[Least(FallbackDasRows)].IdealWater)[2]
    /\ FallbackHighRows # {} /\ Least(FallbackHighRows) = 2
    /\ result.farmer_advisory = rules_df[2].FarmerAdvisory

----------------------------------------------------------------------------
(* Rule tables with malformed cells.                                       *)

TEXT_abc == <<"a", "b", "c">>

COND_ge_abc == <<">", "=", "a", "b", "c">>

MalformedRowsAt(i) ==
    {GrowthRow("Rice", "Tillering", d, w, cd, AdvisoryTexts[i]) :
        d \in {DAS_15_to_45, TEXT_abc}, w \in {WATER_10_to_30, TEXT_abc},
        cd \in {COND_lt_30, COND_ge_abc, TEXT_abc}}

MalformedTables ==
    UNION {{t \in [1..n -> UNION {MalformedRowsAt(i) : i \in 1..n}] :
                \A i \in 1..n : t[i] \in MalformedRowsAt(i)} : n \in 0..MaxRules}

InitMalformedRules ==
    /\ rules_df \in MalformedTables
    /\ sowing_df = <<>>
    /\ weather_df = <<>>
    /\ request = NoRequest
    /\ result = NoResult

NextMalformedRules ==
    \E rain \in RainValues : GrowthAdvisoryApp2("Rice", 20, rain)

SpecMalformedRules == InitMalformedRules /\ [][NextMalformedRules]_vars

\* C17: whatever text the IF Condition, DAS and ideal-water cells hold,
\* get_growth_advisory of App_2.py returns and raises no exception.
C17_NeverRaisesOnMalformedRules ==
    IsGrowthCall({"App_2"}) => result.kind # "raise"

----------------------------------------------------------------------------
(* Rainfall series: the records of one circle on successive dates, each    *)
(* with a rainfall reading that is missing, zero or positive.              *)

MaxRainRecords == 5

RainReadings == {NaN, Number(0), Number(5), Number(10)}

\* the i-th record of a series is dated 3 * i days before the current date
RainSeriesRow(i, current_dt, rain) ==
    WeatherRow(<<"Ahmednagar", "Ahmednagar", "Kapurwadi">>, current_dt - 3 * i, rain,
               Number(30))

RainSeriesTables ==
    UNION {{[i \in 1..n |-> RainSeriesRow(i, c, rains[i])] :
                c \in CurrentDates, rains \in [1..n -> RainReadings]} :
           n \in 0..MaxRainRecords}

InitRainSeries ==
    /\ rules_df = <<>>
    /\ sowing_df = <<>>
    /\ weather_df \in RainSeriesTables
    /\ request = NoRequest
    /\ result = NoResult

NextRainSeries ==
    \E current_dt \in CurrentDates : \E sowing_dt \in {current_dt - 20, current_dt - 10} :
        \/ WeatherMetricsApp8("Ahmednagar", "Ahmednagar", "Kapurwadi", sowing_dt, current_dt)
        \/ WeatherMetricsApp("Ahmednagar", "Ahmednagar", "Kapurwadi", sowing_dt, current_dt)
        \/ WeatherMetricsApp_2189("Ahmednagar", "Ahmednagar", "Kapurwadi", sowing_dt, current_dt)

SpecRainSeries == InitRainSeries /\ [][NextRainSeries]_vars

\* the records of S with a rainfall reading above 0
Rainy(S) == {i \in S : ~weather_df[i].Rainfall.nan /\ weather_df[i].Rainfall.val > 0}

\* the rainfall column of the table reads as the numbers of seq
RainfallReads(seq) ==
    /\ Len(weather_df) = Len(seq)
    /\ \A i \in 1..Len(seq) : weather_df[i].Rainfall = Number(seq[i])

\* C18: in App_8.py the rainy-day count of a window is the number of its
\* records with rainfall above 0, a missing reading not counting; since-sowing
\* readings [5, 0, 10, 0, 0] give rainfall_das = 15 and rainy_days_das = 2.
C18_RainyDayCount ==
    IsWeatherCall({"App_8"}) =>
        /\ result.rainy_days_das = Cardinality(Rainy(SinceSowing))
        /\ result.rainy_days_week =
              Cardinality(Rainy(Dated(request.current_dt - 6, request.current_dt)))
        /\ result.rainy_days_month =
              Cardinality(Rainy(Dated(request.current_dt - 29, request.current_dt)))
        /\ (RainfallReads(<<5, 0, 10, 0, 0>>) /\ Cardinality(SinceSowing) = 5) =>
              result.rainfall_das = 15 /\ result.rainy_days_das = 2

\* C18 witness: the readings [5, 0, 10, 0, 0], all since sowing
C18_Witness ==
    /\ IsWeatherCall({"App_8"})
    /\ RainfallReads(<<5, 0, 10, 0, 0>>) /\ Cardinality(SinceSowing) = 5
    /\ result.rainfall_das = 15 /\ result.rainy_days_das = 2

\* the records of S with a rainfall reading
WithReading(S) == {i \in S : ~weather_df[i].Rainfall.nan}

----------------------------------------------------------------------------
(* Missing columns: weather tables loaded from a sheet that lacks some of  *)
(* the five reading columns.                                               *)

ReadingColumns == {"Rainfall", "Tmax", "Tmin", "max_Rh", "min_Rh"}

\* the i-th record of a full table: dated in the last week, in the last
\* month or before it
ColumnRowsAt(i) ==
    {WeatherRow(<<"Ahmednagar", "Ahmednagar", "Kapurwadi">>, c - back,
                Number(RainWeights[i]), Number(TmaxReadings[i])) :
        c \in CurrentDates, back \in {0, 8, 35}}

\* the table as read from a sheet without the columns of absent
without_columns(table, absent) ==
    [i \in 1..Len(table) |-> [c \in DOMAIN table[i] \ absent |-> table[i][c]]]

MissingColumnTables ==
    {without_columns(t, absent) :
        t \in {u \in WeatherTablesOf(ColumnRowsAt) : u # <<>>},
        absent \in SUBSET ReadingColumns}

InitMissingColumns ==
    /\ rules_df = <<>>
    /\ sowing_df = <<>>
    /\ weather_df \in MissingColumnTables
    /\ request = NoRequest
    /\ result = NoResult

NextMissingColumns ==
    \E current_dt \in CurrentDates : \E sowing_dt \in SowingDatesFor(current_dt) :
        \/ WeatherMetricsApp8("Ahmednagar", "Ahmednagar", "Kapurwadi", sowing_dt, current_dt)
        \/ WeatherMetricsApp("Ahmednagar", "Ahmednagar", "Kapurwadi", sowing_dt, current_dt)
        \/ WeatherMetricsApp_2189("Ahmednagar", "Ahmednagar", "Kapurwadi", sowing_dt, current_dt)

SpecMissingColumns == InitMissingColumns /\ [][NextMissingColumns]_vars

\* the keys of the dictionary calculate_weather_metrics returns
MetricKeys ==
    {"rainfall_das", "rainfall_last_week", "rainfall_last_month", "rainy_days_das",
     "rainy_days_week", "rainy_days_month", "tmax_avg", "tmin_avg", "max_rh_avg",
     "min_rh_avg", "das"}

\* the outputs computed from a column
OutputsOf(col) ==
    CASE col = "Rainfall" -> {"rainfall_das", "rainfall_last_week", "rainfall_last_month",
                              "rainy_days_das", "rainy_days_week", "rainy_days_month"}
      [] col = "Tmax"     -> {"tmax_avg"}
      [] col = "Tmin"     -> {"tmin_avg"}
      [] col = "max_Rh"   -> {"max_rh_avg"}
      [] col = "min_Rh"   -> {"min_rh_avg"}

\* the reading columns the loaded table lacks
AbsentColumns == {col \in ReadingColumns : col \notin DOMAIN weather_df[1]}

\* the loaded table with every absent column put back, its readings missing
Completed ==
    [i \in 1..Len(weather_df) |->
        [c \in DOMAIN weather_df[i] \cup ReadingColumns |->
            IF c \in DOMAIN weather_df[i] THEN weather_df[i][c] ELSE NaN]]

\* what the call made returns on the table with the absent columns put back
OnCompleted ==
    LET level == select_level(request.district, request.taluka, request.circle)
        name  == select_level_name(request.district, request.taluka, request.circle)
    IN  CASE request.variant = "App_8" ->
                calculate_weather_metrics_App8(Completed, level, name,
                                               request.sowing_dt, request.current_dt)
          [] request.variant = "App" ->
                calculate_weather_metrics_App(Completed, level, name,
                                              request.sowing_dt, request.current_dt)
          [] request.variant = "App_2189" ->
                calculate_weather_metrics_App_2189(Completed, level, name,
                                                   request.sowing_dt, request.current_dt)

\* C20: when the weather table lacks any of Rainfall, Tmax, Tmin, max_Rh,
\* min_Rh, calculate_weather_metrics of App_8.py and App.py still returns
\* its dictionary: every sum and rainy-day count of an absent column is 0,
\* every average of an absent column is None, and the outputs of the
\* columns present are those of the table with the absent columns put back.
C20_MissingColumns ==
    (IsWeatherCall({"App_8", "App", "App_2189"}) /\ weather_df # <<>>) =>
        /\ DOMAIN result = MetricKeys
        /\ \A col \in AbsentColumns : \A key \in OutputsOf(col) :
              result[key] = IF col = "Rainfall" THEN 0 ELSE PyNone
        /\ \A col \in ReadingColumns \ AbsentColumns : \A key \in OutputsOf(col) :
              result[key] = OnCompleted[key]
        /\ result.das = OnCompleted.das

\* C20 witness: a table without Rainfall and min_Rh whose Tmax is averaged
C20_Witness ==
    /\ IsWeatherCall({"App_8"})
    /\ weather_df # <<>>
    /\ AbsentColumns = {"Rainfall", "min_Rh"}
    /\ SinceSowing # {}
    /\ result.rainfall_das = 0 /\ result.rainy_days_das = 0
    /\ result.min_rh_avg = PyNone
    /\ result.tmax_avg # PyNone

----------------------------------------------------------------------------
(* Signed rainfall series: as the rainfall series, with readings that may  *)
(* be negative (a sheet that records a correction as a negative amount).   *)

SignedRainReadings == {NaN, Number(-5), Number(0), Number(5)}

SignedRainTables ==
    UNION {{[i \in 1..n |-> RainSeriesRow(i, c, rains[i])] :
                c \in CurrentDates, rains \in [1..n -> SignedRainReadings]} :
           n \in 0..MaxRainRecords}

InitSignedRain ==
    /\ rules_df = <<>>
    /\ sowing_df = <<>>
    /\ weather_df \in SignedRainTables
    /\ request = NoRequest
    /\ result = NoResult

SpecSignedRain == InitSignedRain /\ [][NextRainSeries]_vars

\* no record in the scope of the request has a rainfall reading below 0
NonNegativeRainfall ==
    \A i \in ScopeRecords : weather_df[i].Rainfall.nan \/ weather_df[i].Rainfall.val >= 0

\* C21: when no scoped record has a negative rainfall reading, each window's
\* rainy-day count is at most the number of records in the window and each
\* window's rainfall sum is at least 0.
C21_AggregateBounds ==
    (IsWeatherCall({"App_8", "App", "App_2189"}) /\ NonNegativeRainfall) =>
        LET week  == Dated(request.current_dt - 6, request.current_dt)
            month == Dated(request.current_dt - 29, request.current_dt)
        IN  /\ result.rainy_days_week <= Cardinality(week)
            /\ result.rainy_days_month <= Cardinality(month)
            /\ result.rainy_days_das <= Cardinality(SinceSowing)
            /\ result.rainfall_last_week >= 0
            /\ result.rainfall_last_month >= 0
            /\ result.rainfall_das >= 0

\* C21 witness: the since-sowing window holds more records than the week, the
\* week's count is at its bound, and the month holds a record that is not rainy
C21_Witness ==
    /\ IsWeatherCall({"App_8"}) /\ NonNegativeRainfall
    /\ result.rainy_days_week = Cardinality(Dated(request.current_dt - 6, request.current_dt))
    /\ result.rainy_days_week = 2
    /\ result.rainy_days_month < Cardinality(Dated(request.current_dt - 29, request.current_dt))
    /\ result.rainfall_das > 0

\* a negative reading takes a sum below 0: the bound needs its condition
C21_NegativeReading ==
    /\ IsWeatherCall({"App_8"}) /\ ~NonNegativeRainfall
    /\ result.rainfall_das < 0

----------------------------------------------------------------------------
(* Fortnight calendar: fn_from_date on every day of 2024 and fn_index on   *)
(* every fortnight token.                                                  *)

\* the number of days of month m of 2024
DaysIn(m) == IF m = 2 THEN 29 ELSE IF m \in {4, 6, 9, 11} THEN 30 ELSE 31

CalendarDates == {Date(d, m, 2024) : d \in 1..31, m \in 1..Len(MonthNames)}

InitFortnightCalendar ==
    /\ rules_df = <<>>
    /\ sowing_df = <<>>
    /\ weather_df = <<>>
    /\ request = NoRequest
    /\ result = NoResult

\* App_2.py 348: fn = fn_from_date(sowing_dt)
FnFromDate(dt) ==
    /\ request = NoRequest
    /\ dt.day <= DaysIn(dt.month)
    /\ request' = [fn |-> "fn_from_date", dt |-> dt]
    /\ result' = fn_from_date(dt)
    /\ UNCHANGED <<rules_df, sowing_df, weather_df>>

\* App_2.py 422-424: idx_fn = fn_index(fn), left_idx = fn_index(left), ...
FnIndex(token) ==
    /\ request = NoRequest
    /\ request' = [fn |-> "fn_index", token |-> token]
    /\ result' = fn_index(token)
    /\ UNCHANGED <<rules_df, sowing_df, weather_df>>

NextFortnightCalendar ==
    \/ \E dt \in CalendarDates : FnFromDate(dt)
    \/ \E h \in Halves, m \in 1..Len(MonthNames) : FnIndex(Token(h, m))

SpecFortnightCalendar == InitFortnightCalendar /\ [][NextFortnightCalendar]_vars

\* (month, half) a comes before (month, half) b in the calendar
CalendarBefore(ha, ma, hb, mb) == ma < mb \/ (ma = mb /\ ha = "1" /\ hb = "2")

\* C22: fn_from_date gives half 1 exactly for the days up to the 15th, with
\* the English name of the date's month (10 June -> 1FN June, 20 June ->
\* 2FN June); fn_index gives (month - 1) * 2 + (half - 1), which increases
\* strictly in the calendar order of (month, half), so that two tokens never
\* share an index.
C22_FortnightCalendar ==
    /\ request # NoRequest /\ request.fn = "fn_from_date" =>
          /\ result = Token(IF request.dt.day <= 15 THEN "1" ELSE "2", request.dt.month)
          /\ request.dt = Date(10, 6, 2024) => result = <<"1","F","N"," ","J","u","n","e">>
          /\ request.dt = Date(20, 6, 2024) => result = <<"2","F","N"," ","J","u","n","e">>
    /\ request # NoRequest /\ request.fn = "fn_index" =>
          /\ \A h \in Halves, m \in 1..Len(MonthNames) :
                request.token = Token(h, m) => result = Number(FortnightIndex(h, m))
          /\ \A h \in Halves, m \in 1..Len(MonthNames) :
             \A hb \in Halves, mb \in 1..Len(MonthNames) :
                (request.token = Token(hb, mb) /\ CalendarBefore(h, m, hb, mb))
                    => fn_index(Token(h, m)).val < result.val
          /\ \A h \in Halves, m \in 1..Len(MonthNames) :
                Token(h, m) # request.token => fn_index(Token(h, m)) # result

\* C22 witness: the index of 1FN July, above those of 1FN June and 2FN June
C22_Witness ==
    /\ request # NoRequest /\ request.fn = "fn_index"
    /\ request.token = <<"1","F","N"," ","J","u","l","y">>
    /\ result = Number(12)
    /\ fn_index(<<"1","F","N"," ","J","u","n","e">>).val < fn_index(<<"2","F","N"," ","J","u","n","e">>).val
    /\ fn_index(<<"2","F","N"," ","J","u","n","e">>).val < result.val

----------------------------------------------------------------------------
(* Numeric-range parser: parse_water_range on the texts of the Ideal Water *)
(* Required column.  A cell reaches the parser through str(): an empty     *)
(* cell, which pandas reads as NaN, arrives as the text "nan".             *)

WaterNumbers == <<0, 5, 10, 20, 30, 115>>

WaterNumberTexts == <<<<"0">>, <<"5">>, <<"1", "0">>, <<"2", "0">>, <<"3", "0">>, <<"1", "1", "5">>>>

WaterSeparators == <<<<" ", "t", "o", " ">>, <<"t", "o">>, <<" ", " ", "t", "o", " ">>>>

\* a water cell is <<form, i, j, k>>: the range "a to b" written with the
\* k-th separator, or the bare number a between spaces, with
\* a = WaterNumbers[i] and b = WaterNumbers[j]
WaterCases ==
    {"range", "bare"} \X (1..Len(WaterNumbers)) \X (1..Len(WaterNumbers))
        \X (1..Len(WaterSeparators))

WaterCaseText(c) ==
    IF c[1] = "range"
    THEN WaterNumberTexts[c[2]] \o WaterSeparators[c[4]] \o WaterNumberTexts[c[3]]
    ELSE <<" ">> \o WaterNumberTexts[c[2]] \o <<" ">>

\* cells that are neither a range nor a number: empty, blank, words, a range
\* with a part missing or not a number, three parts, a dash, the empty cell
MalformedWaterTexts ==
    {<<>>,
     <<" ">>,
     <<"a", "b", "c">>,
     <<"1", "0", " ", "t", "o">>,
     <<"t", "o", " ", "3", "0">>,
     <<"1", "0", " ", "t", "o", " ", "2", "0", " ", "t", "o", " ", "3", "0">>,
     <<"1", "0", " ", "t", "o", " ", "a", "b", "c">>,
     <<"1", "0", " ", "-", " ", "3", "0">>,
     <<"O", "c", "t", "o", "b", "e", "r">>,
     <<"n", "a", "n">>,
     <<"n", "a", "n", " ", "t", "o", " ", "3", "0">>}

WaterTexts == {WaterCaseText(c) : c \in WaterCases} \cup MalformedWaterTexts

InitWaterRange ==
    /\ rules_df = <<>>
    /\ sowing_df = <<>>
    /\ weather_df = <<>>
    /\ request = NoRequest
    /\ result = NoResult

\* App_2.py 306: min_w, max_w = parse_water_range(ideal_water)
ParseWaterRange(water_str) ==
    /\ request = NoRequest
    /\ request' = [fn |-> "parse_water_range", water_str |-> water_str]
    /\ result' = parse_water_range(water_str)
    /\ UNCHANGED <<rules_df, sowing_df, weather_df>>

NextWaterRange == \E water_str \in WaterTexts : ParseWaterRange(water_str)

SpecWaterRange == InitWaterRange /\ [][NextWaterRange]_vars

IsWaterRangeCall == request.fn = "parse_water_range"

\* the call made returned (None, None)
ReturnsNoRange == ~result.ok

\* the call made returned (a, b)
ReturnsRange(a, b) == result.ok /\ result.min = Number(a) /\ result.max = Number(b)

\* C23: "a to b" gives (a, b), a bare number v gives (v, v), and every other
\* text gives (None, None).
C23_WaterRangeParser ==
    IsWaterRangeCall =>
        /\ \A c \in WaterCases :
              request.water_str = WaterCaseText(c) =>
                  IF c[1] = "range"
                  THEN ReturnsRange(WaterNumbers[c[2]], WaterNumbers[c[3]])
                  ELSE ReturnsRange(WaterNumbers[c[2]], WaterNumbers[c[2]])
        /\ request.water_str \in MalformedWaterTexts => ReturnsNoRange

\* the two forms of C23 alone hold: ranges and bare numbers are parsed
C23_WellFormedParsed ==
    IsWaterRangeCall =>
        \A c \in WaterCases :
            request.water_str = WaterCaseText(c) =>
                IF c[1] = "range"
                THEN ReturnsRange(WaterNumbers[c[2]], WaterNumbers[c[3]])
                ELSE ReturnsRange(WaterNumbers[c[2]], WaterNumbers[c[2]])

----------------------------------------------------------------------------
(* A session: the tables are loaded once (st.cache_data), and every        *)
(* "Generate Advisory" runs the script again against them, so the engine   *)
(* functions are called any number of times on the same tables.            *)

SessionRowsAt(i) ==
    {WeatherRow(pl, c - 3, Number(RainWeights[i]), Number(TmaxReadings[i])) :
        pl \in {<<"Ahmednagar", "Ahmednagar", "Kapurwadi">>,
                <<"Ahmednagar", "Ahmednagar", "Bhingar">>},
        c \in CurrentDates}

SessionRules ==
    {<<>>,
     <<GrowthRow("Rice", "Tillering", DAS_15_to_45, WATER_10_to_30, COND_lt_30,
                 AdvisoryTexts[1]),
       GrowthRow("Rice", "Tillering", DAS_15_to_45, WATER_10_to_30, COND_ge_30,
                 AdvisoryTexts[2])>>}

SessionSowing ==
    {<<>>,
     <<SowingRow(<<"Ahmednagar", "Ahmednagar", "Kapurwadi">>, "Cotton",
                 SOW_lt_2FN_June, CommentTexts[1]),
       SowingRow(<<"Ahmednagar", "Ahmednagar", "Bhingar">>, "Cotton",
                 SOW_2FN_June_to_1FN_July, CommentTexts[2])>>}

InitSession ==
    /\ rules_df \in SessionRules
    /\ sowing_df \in SessionSowing
    /\ weather_df \in {t \in WeatherTablesOf(SessionRowsAt) : t # <<>>}
    /\ request = NoRequest
    /\ result = NoResult

\* the next "Generate Advisory": the script runs again; the page shows the
\* last result until the new one replaces it
Rerun ==
    /\ request # NoRequest
    /\ request' = NoRequest
    /\ UNCHANGED <<rules_df, sowing_df, weather_df, result>>

NextSession ==
    \/ \E current_dt \in CurrentDates, circle \in {"Kapurwadi", ""} :
          \/ WeatherMetricsApp8("Ahmednagar", "Ahmednagar", circle, current_dt - 20, current_dt)
          \/ WeatherMetricsApp2("Ahmednagar", "Ahmednagar", circle, current_dt - 20, current_dt)
          \/ WeatherMetricsApp6("Ahmednagar", "Ahmednagar", circle, current_dt - 20, current_dt)
    \/ \E sowing_dt \in {Date(10, 6, 2024), Date(20, 6, 2024)} :
          \/ SowingAdvisoryApp2(sowing_dt, "Ahmednagar", "Ahmednagar", "Kapurwadi", "Cotton")
          \/ SowingCommentsApp(sowing_dt, "Ahmednagar", "Ahmednagar", "Kapurwadi", "Cotton")
    \/ \E rain \in RainValues :
          \/ GrowthAdvisoryApp2("Rice", 20, rain)
          \/ GrowthAdvisoryApp8("Rice", 20, rain)
    \/ Rerun

SpecSession == InitSession /\ [][NextSession]_vars

----------------------------------------------------------------------------
(* Strict fortnight rules: a table of one rule "< T" or "> T", for every   *)
(* fortnight token T, and the sample table of App_2.py.                    *)

\* the condition text "< T" or "> T"
StrictCondition(op, h, m) == <<op, " ">> \o Token(h, m)

\* App_2.py 170-174: the sample sowing rules
SampleSowingTable ==
    <<SowingRow(<<"Ahmednagar", "Ahmednagar", "Kapurwadi">>, "Cotton", SOW_lt_2FN_June,
                CommentTexts[1]),
      SowingRow(<<"Ahmednagar", "Ahmednagar", "Kapurwadi">>, "Cotton", SOW_gt_1FN_July,
                CommentTexts[2]),
      SowingRow(<<"Ahmednagar", "Ahmednagar", "Kapurwadi">>, "Cotton",
                SOW_2FN_June_to_1FN_July, CommentTexts[3])>>

StrictTables ==
    {<<SowingRow(<<"Ahmednagar", "Ahmednagar", "Kapurwadi">>, "Cotton",
                 StrictCondition(op, h, m), CommentTexts[1])>> :
        op \in {"<", ">"}, h \in Halves, m \in 1..Len(MonthNames)}
    \cup {SampleSowingTable}

InitStrictFortnight ==
    /\ rules_df = <<>>
    /\ sowing_df \in StrictTables
    /\ weather_df = <<>>
    /\ request = NoRequest
    /\ result = NoResult

SpecStrictFortnight == InitStrictFortnight /\ [][NextFortnightRange]_vars

\* C25: a rule "< T" is returned exactly for the sowing dates whose
\* fortnight index is below index(T), a rule "> T" exactly for those whose
\* index is above it, and with the sample rows every sowing date in 2FN June
\* or 1FN July gets the "Ideal Sowing Period" comment.
C25_StrictFortnightComparison ==
    IsSowingCall("App_2") =>
        /\ \A h \in Halves, m \in 1..Len(MonthNames) :
              /\ sowing_df[1].IFcondition = StrictCondition("<", h, m) /\ Len(sowing_df) = 1 =>
                    (ReturnsSowingRow(sowing_df[1]) <=>
                        DateFortnightIndex(request.sowing_dt) < FortnightIndex(h, m))
              /\ sowing_df[1].IFcondition = StrictCondition(">", h, m) /\ Len(sowing_df) = 1 =>
                    (ReturnsSowingRow(sowing_df[1]) <=>
                        DateFortnightIndex(request.sowing_dt) > FortnightIndex(h, m))
        /\ (sowing_df = SampleSowingTable
              /\ DateFortnightIndex(request.sowing_dt) \in
                    {FortnightIndex("2", 6), FortnightIndex("1", 7)}) =>
                 ReturnsSowingRow(sowing_df[3])

\* the strict comparison holds for every date outside the fortnight T itself
C25_StrictOutsideOwnFortnight ==
    IsSowingCall("App_2") =>
        \A h \in Halves, m \in 1..Len(MonthNames), op \in {"<", ">"} :
            (/\ Len(sowing_df) = 1
             /\ sowing_df[1].IFcondition = StrictCondition(op, h, m)
             /\ DateFortnightIndex(request.sowing_dt) # FortnightIndex(h, m)) =>
                (ReturnsSowingRow(sowing_df[1]) <=>
                    IF op = "<"
                    THEN DateFortnightIndex(request.sowing_dt) < FortnightIndex(h, m)
                    ELSE DateFortnightIndex(request.sowing_dt) > FortnightIndex(h, m))

----------------------------------------------------------------------------
(* The aggregators of App_2.py and App_5.py on the same request.           *)

\* what calculate_weather_metrics of App_5.py returns for the request made
SameRequestApp5 ==
    calculate_weather_metrics_App5(weather_df,
        select_level(request.district, request.taluka, request.circle),
        select_level_name(request.district, request.taluka, request.circle),
        request.sowing_dt, request.current_dt)

\* C26: for a sowing date not after the current date, calculate_weather_metrics
\* of App_2.py returns the das, the three rainfall sums and the four averages
\* that calculate_weather_metrics of App_5.py returns.
C26_VariantEquivalence ==
    (IsWeatherCall({"App_2"}) /\ request.sowing_dt <= request.current_dt) =>
        \A key \in {"das", "rainfall_last_week", "rainfall_last_month", "rainfall_das",
                    "tmax_avg", "tmin_avg", "max_rh_avg", "min_rh_avg"} :
            result[key] = SameRequestApp5[key]

\* the two variants agree on das and on the since-sowing rainfall
C26_SameDasAndSinceSowingSum ==
    (IsWeatherCall({"App_2"}) /\ request.sowing_dt <= request.current_dt) =>
        /\ result.das = SameRequestApp5.das
        /\ result.rainfall_das = SameRequestApp5.rainfall_das

----------------------------------------------------------------------------
(* The aggregator of App_6_downloadeble.py on the window tables, which     *)
(* hold records dated before, on and after the current date.               *)

NextWindowsApp6 ==
    \E current_dt \in CurrentDates : \E sowing_dt \in SowingDatesFor(current_dt) :
        WeatherMetricsApp6("Ahmednagar", "Ahmednagar", "Kapurwadi", sowing_dt, current_dt)

SpecWindowsApp6 == InitWindows /\ [][NextWindowsApp6]_vars

\* the records of the scope dated after the current date
FutureRecords == {i \in ScopeRecords : weather_df[i].Date_dt > request.current_dt}

\* C27: in App_6_downloadeble.py no record dated after the current date adds
\* to rainfall_last_week or rainfall_last_month: each is the sum over the
\* records from its first day up to the current date, as rainfall_das is.
C27_NoFutureData ==
    IsWeatherCall({"App_6"}) =>
        /\ result.rainfall_last_week =
              RainOver(Dated(request.current_dt - 7, request.current_dt))
        /\ result.rainfall_last_month =
              RainOver(Dated(request.current_dt - 30, request.current_dt))

\* without a record dated after the current date the two sums are those of
\* the windows that end on the current date, and rainfall_das always is
C27_BoundedWithoutFutureRecords ==
    IsWeatherCall({"App_6"}) =>
        /\ result.rainfall_das = RainOver(SinceSowing)
        /\ FutureRecords = {} =>
              /\ result.rainfall_last_week =
                    RainOver(Dated(request.current_dt - 7, request.current_dt))
              /\ result.rainfall_last_month =
                    RainOver(Dated(request.current_dt - 30, request.current_dt))

----------------------------------------------------------------------------
(* The rule a growth advisory comes from.                                  *)

\* C28: when get_growth_advisory of App_2.py returns the advisory text of a
\* rule row, that row is a row of the requested crop and its own DAS range
\* holds the requested das, also in a table where rows of one growth-stage
\* name have different DAS ranges.
C28_ReturnedRuleMatchesDas ==
    IsGrowthCall({"App_2"}) =>
        \A i \in 1..Len(rules_df) : ReturnsRow(i) => i \in DasRows

\* the returned row is always a row of the requested crop, and a row of the
\* stage of the first row that matches das
C28_ReturnedRuleOfCropAndStage ==
    IsGrowthCall({"App_2"}) =>
        \A i \in 1..Len(rules_df) :
            ReturnsRow(i) =>
                /\ i \in CropRows
                /\ DasRows # {}
                /\ rules_df[i].GrowthStage = rules_df[Least(DasRows)].GrowthStage

----------------------------------------------------------------------------
(* Totality of the growth advisory of App_2.py.                            *)

\* C29: get_growth_advisory of App_2.py returns an advisory or a no-advisory
\* message on every path, never None: also when a stage matched das, no
\* row's condition is satisfied and the ideal-water text is not a range.
C29_GrowthAdvisoryTotal ==
    IsGrowthCall({"App_2"}) => result.kind # "None"

\* with an ideal-water text that parses, every call that returns gives a
\* message
C29_TotalWithParseableWater ==
    (/\ IsGrowthCall({"App_2"})
     /\ \A i \in 1..Len(rules_df) : rules_df[i].IdealWater = WATER_10_to_30) =>
        result.kind \in {"stage_advisory", "no_rules", "no_stage", "raise"}

----------------------------------------------------------------------------
(* The circle of the row a sowing comment comes from.                      *)

\* C30: for a request that names a circle, the comment returned by
\* get_sowing_comments of App.py and get_sowing_advisory of App_2.py comes
\* from a row of that circle or of no circle, never from a row of another
\* circle of the taluka or the district.
C30_CommentRespectsCircle ==
    ((IsSowingCall("App_2") \/ IsSowingCall("App")) /\ request.circle # "") =>
        \A i \in 1..Len(sowing_df) :
            ReturnsSowingRow(sowing_df[i]) => sowing_df[i].Circle \in {request.circle, ""}

\* the returned row is always a row of the requested district and crop
C30_CommentRespectsDistrictAndCrop ==
    (IsSowingCall("App_2") \/ IsSowingCall("App")) =>
        \A i \in 1..Len(sowing_df) :
            ReturnsSowingRow(sowing_df[i]) =>
                /\ sowing_df[i].District = request.district
                /\ sowing_df[i].Crop = request.crop

----------------------------------------------------------------------------
(* The whole program: any of the loaded tables, then one engine call.      *)

Init == InitGrowth \/ InitSowing \/ InitFortnightRange \/ InitWindows \/ InitScope

Next == NextGrowth \/ NextSowing \/ NextFortnightRange \/ NextWindows \/ NextScope

Spec == Init /\ [][Next]_vars

====
